---- MODULE Spec2Model ----
(***************************************************************************)
(* The range-resolution transform layer of slate                           *)
(* (src/transforms/at-range.js): every at-range operation is a composite   *)
(* of key-addressed primitives applied, one after the other, to the State  *)
(* a Transform holds.                                                      *)
(*                                                                         *)
(* A document is a tree of node records; a Transform is the record         *)
(* [doc, sel, ops, nk, err]: its State (document, selection), the log of   *)
(* the primitives the running operation has issued, the key generator and  *)
(* the flag of a fault (an exception leaves the State at the last          *)
(* committed primitive).                                                   *)
(***************************************************************************)
EXTENDS Integers, Sequences, FiniteSets, TLC

VARIABLES document, selection, nextKey, prevDocument, prevSelection, call, ops, err, calls

vars == <<document, selection, nextKey, prevDocument, prevSelection, call, ops, err, calls>>

(***************************************************************************)
(* Nodes.                                                                  *)
(***************************************************************************)

Char(c, ms) == [c |-> c, marks |-> ms]

Text(k, cs) ==
  [key |-> k, kind |-> "text", type |-> "text", isVoid |-> FALSE, nodes |-> <<>>, chars |-> cs]

Block(k, t, v, ns) ==
  [key |-> k, kind |-> "block", type |-> t, isVoid |-> v, nodes |-> ns, chars |-> <<>>]

Inline(k, t, v, ns) ==
  [key |-> k, kind |-> "inline", type |-> t, isVoid |-> v, nodes |-> ns, chars |-> <<>>]

Document(ns) ==
  [key |-> 0, kind |-> "document", type |-> "document", isVoid |-> FALSE, nodes |-> ns, chars |-> <<>>]

\* What a query returns when there is no such node (null / undefined).
Null ==
  [key |-> -1, kind |-> "null", type |-> "null", isVoid |-> FALSE, nodes |-> <<>>, chars |-> <<>>]

Min(a, b) == IF a < b THEN a ELSE b

Max(a, b) == IF a > b THEN a ELSE b

\* Immutable's List.take(n) and List.skip(n) for any integer n.
Take(s, n) == SubSeq(s, 1, Max(0, Min(n, Len(s))))

Skip(s, n) == SubSeq(s, Max(0, Min(n, Len(s))) + 1, Len(s))

\* Immutable's List.slice(b, e) for 0 <= b.
Slice(s, b, e) == SubSeq(s, Max(0, b) + 1, Min(e, Len(s)))

\* The only element of a one-element set: Then({e(x) : x \in {v}}) is e with
\* x standing for the value of v, worked out once.
Then(S) == CHOOSE v \in S : TRUE

(***************************************************************************)
(* Tree queries. A path is the sequence of child indexes from the root.    *)
(***************************************************************************)

RECURSIVE PathsFrom(_, _, _)
PathsFrom(node, prefix, i) ==
  IF i > Len(node.nodes) THEN <<>>
  ELSE <<Append(prefix, i)>> \o PathsFrom(node.nodes[i], Append(prefix, i), 1)
         \o PathsFrom(node, prefix, i + 1)

\* The paths of every descendant of node, in document order.
PathsOf(node) == PathsFrom(node, <<>>, 1)

RECURSIVE NodeAt(_, _)
NodeAt(node, path) ==
  IF path = <<>> THEN node ELSE NodeAt(node.nodes[Head(path)], Tail(path))

RECURSIVE KeysFrom(_, _)
KeysFrom(node, i) ==
  IF i > Len(node.nodes) THEN <<>>
  ELSE <<node.nodes[i].key>> \o KeysFrom(node.nodes[i], 1) \o KeysFrom(node, i + 1)

\* The keys of every descendant of node, in document order.
KeysOf(node) == KeysFrom(node, 1)

\* The least and the greatest element of a non-empty set of integers.
Least(S) == CHOOSE i \in S : \A j \in S : i <= j

Greatest(S) == CHOOSE i \in S : \A j \in S : i >= j

NoPath == <<0>>

\* The path of the first node with the key, in document order.
GetPath(node, key) ==
  IF node.key = key THEN <<>>
  ELSE Then({Then({IF hits = {} THEN NoPath ELSE ps[Least(hits)] :
                     hits \in {{i \in 1..Len(ps) : NodeAt(node, ps[i]).key = key}}}) :
               ps \in {PathsOf(node)}})

HasDescendant(node, key) == GetPath(node, key) \notin {NoPath, <<>>}

HasNode(node, key) == GetPath(node, key) # NoPath

GetDescendant(node, key) ==
  Then({IF p \in {NoPath, <<>>} THEN Null ELSE NodeAt(node, p) : p \in {GetPath(node, key)}})

\* The ancestors of the node with the key, from the root down to its parent.
GetAncestors(node, key) ==
  Then({IF p = NoPath THEN <<>> ELSE [i \in 1..Len(p) |-> NodeAt(node, SubSeq(p, 1, i - 1))] :
          p \in {GetPath(node, key)}})

GetParent(node, key) ==
  Then({IF p \in {NoPath, <<>>} THEN Null ELSE NodeAt(node, SubSeq(p, 1, Len(p) - 1)) :
          p \in {GetPath(node, key)}})

\* getClosest(key, p => p.kind == kind): the nearest ancestor of that kind,
\* the root excluded.
GetClosestOfKind(node, key, kind) ==
  Then({Then({IF hits = {} THEN Null ELSE ancestors[Greatest(hits)] :
                hits \in {{i \in 2..Len(ancestors) : ancestors[i].kind = kind}}}) :
          ancestors \in {GetAncestors(node, key)}})

GetClosestBlock(node, key) == GetClosestOfKind(node, key, "block")

GetClosestInline(node, key) == GetClosestOfKind(node, key, "inline")

\* getFurthest(key, p => p.nodes.size == 1): the highest ancestor, the root
\* excluded, that has exactly one child.
GetFurthestLonely(node, key) ==
  Then({Then({IF hits = {} THEN Null ELSE ancestors[Least(hits)] :
                hits \in {{i \in 2..Len(ancestors) : Len(ancestors[i].nodes) = 1}}}) :
          ancestors \in {GetAncestors(node, key)}})

\* The child of node that is, or holds, the node with the key.
GetHighestChild(node, key) ==
  Then({IF hits = {} THEN Null ELSE node.nodes[Least(hits)] :
          hits \in {{i \in 1..Len(node.nodes) : HasNode(node.nodes[i], key)}}})

\* List.indexOf, 0-based, -1 when absent.
IndexOf(seq, x) ==
  Then({IF hits = {} THEN -1 ELSE Least(hits) - 1 :
          hits \in {{i \in 1..Len(seq) : seq[i] = x}}})

IndexOfKey(seq, key) ==
  Then({IF hits = {} THEN -1 ELSE Least(hits) - 1 :
          hits \in {{i \in 1..Len(seq) : seq[i].key = key}}})

RECURSIVE CharsFrom(_, _)
CharsFrom(node, i) ==
  IF node.kind = "text" THEN node.chars
  ELSE IF i > Len(node.nodes) THEN <<>>
  ELSE CharsFrom(node.nodes[i], 1) \o CharsFrom(node, i + 1)

\* The characters of a node in document order.
CharsOf(node) == CharsFrom(node, 1)

Length(node) == Len(CharsOf(node))

RECURSIVE TextsFrom(_, _)
TextsFrom(node, i) ==
  IF node.kind = "text" THEN <<node>>
  ELSE IF i > Len(node.nodes) THEN <<>>
  ELSE TextsFrom(node.nodes[i], 1) \o TextsFrom(node, i + 1)

\* The text leaves of a node in document order.
GetTexts(node) == TextsFrom(node, 1)

GetFirstText(node) ==
  Then({IF ts = <<>> THEN Null ELSE ts[1] : ts \in {GetTexts(node)}})

GetLastText(node) ==
  Then({IF ts = <<>> THEN Null ELSE ts[Len(ts)] : ts \in {GetTexts(node)}})

GetNextText(node, key) ==
  Then({Then({IF i = 0 \/ i = Len(ts) THEN Null ELSE ts[i + 1] :
                i \in {IndexOfKey(ts, key) + 1}}) :
          ts \in {GetTexts(node)}})

GetPreviousText(node, key) ==
  Then({Then({IF i <= 1 THEN Null ELSE ts[i - 1] : i \in {IndexOfKey(ts, key) + 1}}) :
          ts \in {GetTexts(node)}})

RECURSIVE LengthBefore(_, _, _)
\* The length of the text that comes before path p in node.
LengthBefore(node, p, i) ==
  IF p = <<>> THEN 0
  ELSE IF i < Head(p) THEN Length(node.nodes[i]) + LengthBefore(node, p, i + 1)
  ELSE LengthBefore(node.nodes[i], Tail(p), 1)

\* The offset, within node, of the start of its descendant with the key.
GetOffset(node, key) ==
  Then({IF p = NoPath THEN 0 ELSE LengthBefore(node, p, 1) : p \in {GetPath(node, key)}})

\* The deepest node that is a proper ancestor of both keys.
GetCommonAncestor(node, one, two) ==
  Then({NodeAt(node, SubSeq(p, 1, Greatest({i \in 0..(Min(Len(p), Len(q)) - 1) :
                                            SubSeq(p, 1, i) = SubSeq(q, 1, i)}))) :
          p \in {GetPath(node, one)}, q \in {GetPath(node, two)}})

IsEmpty(node) == Length(node) = 0

(***************************************************************************)
(* Ranges (selections).                                                    *)
(***************************************************************************)

Range(ak, ao, fk, fo, back) ==
  [anchorKey |-> ak, anchorOffset |-> ao, focusKey |-> fk, focusOffset |-> fo,
   isBackward |-> back]

StartKey(r) == IF r.isBackward THEN r.focusKey ELSE r.anchorKey

StartOffset(r) == IF r.isBackward THEN r.focusOffset ELSE r.anchorOffset

EndKey(r) == IF r.isBackward THEN r.anchorKey ELSE r.focusKey

EndOffset(r) == IF r.isBackward THEN r.anchorOffset ELSE r.focusOffset

IsCollapsed(r) == r.anchorKey = r.focusKey /\ r.anchorOffset = r.focusOffset

IsExpanded(r) == ~IsCollapsed(r)

CollapseToStart(r) == Range(StartKey(r), StartOffset(r), StartKey(r), StartOffset(r), FALSE)

CollapseToEnd(r) == Range(EndKey(r), EndOffset(r), EndKey(r), EndOffset(r), FALSE)

IsAtStartOf(r, node) ==
  /\ IsCollapsed(r)
  /\ StartOffset(r) = 0
  /\ StartKey(r) = GetFirstText(node).key

IsAtEndOf(r, node) ==
  /\ IsCollapsed(r)
  /\ Then({EndKey(r) = last.key /\ EndOffset(r) = Len(last.chars) :
             last \in {GetLastText(node)}})

\* The text leaves from the start leaf to the end leaf of the range.
GetTextsAtRange(node, r) ==
  Then({Slice(ts, IndexOfKey(ts, StartKey(r)), IndexOfKey(ts, EndKey(r)) + 1) :
          ts \in {GetTexts(node)}})

\* Whether character i (0-based) of the text leaf lies inside the range.
IsInRange(i, text, r) ==
  /\ (text.key = StartKey(r) => i >= StartOffset(r))
  /\ (text.key = EndKey(r) => i < EndOffset(r))

\* The marks carried by the characters inside an expanded range.
GetMarksAtRange(node, r) ==
  Then({UNION {UNION {ts[t].chars[i].marks :
                        i \in {j \in 1..Len(ts[t].chars) : IsInRange(j - 1, ts[t], r)}} :
                 t \in 1..Len(ts)} :
          ts \in {GetTextsAtRange(node, r)}})

(***************************************************************************)
(* Tree edits.                                                             *)
(***************************************************************************)

RECURSIVE ReplaceAt(_, _, _)
ReplaceAt(node, path, new) ==
  IF path = <<>> THEN new
  ELSE [node EXCEPT !.nodes[Head(path)] = ReplaceAt(@, Tail(path), new)]

Front(path) == SubSeq(path, 1, Len(path) - 1)

Last(path) == path[Len(path)]

Without(seq, i) == SubSeq(seq, 1, i - 1) \o SubSeq(seq, i + 1, Len(seq))

RemoveAt(node, path) ==
  Then({ReplaceAt(node, Front(path), [parent EXCEPT !.nodes = Without(@, Last(path))]) :
          parent \in {NodeAt(node, Front(path))}})

\* Immutable's List.splice(index, 0, x): a negative index counts from the
\* end, an index past the end appends.
SpliceIn(seq, index, x) ==
  Then({SubSeq(seq, 1, i) \o <<x>> \o SubSeq(seq, i + 1, Len(seq)) :
          i \in {IF index < 0 THEN Max(0, Len(seq) + index) ELSE Min(index, Len(seq))}})

InsertAt(node, path, index, new) ==
  Then({ReplaceAt(node, path, [parent EXCEPT !.nodes = SpliceIn(@, index, new)]) :
          parent \in {NodeAt(node, path)}})

RECURSIVE CumLen(_, _)
\* The length of the first i children of node.
CumLen(node, i) == IF i < 1 THEN 0 ELSE Length(node.nodes[i]) + CumLen(node, i - 1)

\* The child a split at the offset goes through: the first child holding a
\* text leaf and ending at or after the offset (0 when there is none).
SplitIndex(node, offset) ==
  Then({IF hits = {} THEN 0 ELSE Least(hits) :
          hits \in {{i \in 1..Len(node.nodes) :
                       GetTexts(node.nodes[i]) # <<>> /\ CumLen(node, i) >= offset}}})

RECURSIVE SplitNode(_, _, _)
\* node split at offset: one keeps the key, two (and every node of its left
\* spine) gets a fresh key.
SplitNode(node, offset, nk) ==
  IF node.kind = "text"
  THEN [ok |-> TRUE, one |-> [node EXCEPT !.chars = Take(@, offset)],
        two |-> Text(nk, Skip(node.chars, offset)), nk |-> nk + 1]
  ELSE Then({IF i = 0 THEN [ok |-> FALSE, one |-> node, two |-> node, nk |-> nk]
             ELSE Then({Then({[ok |-> r.ok,
                               one |-> [node EXCEPT !.nodes = SubSeq(@, 1, i - 1) \o <<r.one>>],
                               two |-> [node EXCEPT !.key = r.nk,
                                          !.nodes = <<r.two>> \o SubSeq(@, i + 1, Len(@))],
                               nk |-> r.nk + 1] :
                                r \in {SplitNode(node.nodes[i], rest, nk)}}) :
                          rest \in {offset - CumLen(node, i - 1)}}) :
               i \in {SplitIndex(node, offset)}})

RECURSIVE Repair(_, _)
RECURSIVE RepairKids(_, _, _, _)
\* The schema-repair pass on a subtree: a block or inline that is not void and
\* has no child gets an empty text leaf.
Repair(node, nk) ==
  IF node.kind = "text" \/ node.isVoid THEN [node |-> node, nk |-> nk]
  ELSE IF node.nodes = <<>> /\ node.kind # "document"
  THEN [node |-> [node EXCEPT !.nodes = <<Text(nk, <<>>)>>], nk |-> nk + 1]
  ELSE RepairKids(node, 1, <<>>, nk)

RepairKids(node, i, acc, nk) ==
  IF i > Len(node.nodes) THEN [node |-> [node EXCEPT !.nodes = acc], nk |-> nk]
  ELSE Then({Then({RepairKids(node, i + 1, kids, r.nk) : kids \in {Append(acc, r.node)}}) :
               r \in {Repair(node.nodes[i], nk)}})

\* The repair of the subtree of the node with the key (nothing when absent).
NormalizeIn(doc, key, nk) ==
  Then({IF p = NoPath THEN [node |-> doc, nk |-> nk]
        ELSE Then({[node |-> ReplaceAt(doc, p, r.node), nk |-> r.nk] :
                     r \in {Repair(NodeAt(doc, p), nk)}}) :
          p \in {GetPath(doc, key)}})

RECURSIVE RegenerateKeys(_, _, _)
RECURSIVE RegenerateKids(_, _, _, _, _)
\* node with a fresh key for itself and for each of its descendants whose key
\* is in keys.
RegenerateKeys(node, keys, nk) ==
  IF node.key \in keys
  THEN RegenerateKids([node EXCEPT !.key = nk], keys, 1, <<>>, nk + 1)
  ELSE RegenerateKids(node, keys, 1, <<>>, nk)

RegenerateKids(node, keys, i, acc, nk) ==
  IF i > Len(node.nodes) THEN [node |-> [node EXCEPT !.nodes = acc], nk |-> nk]
  ELSE Then({Then({RegenerateKids(node, keys, i + 1, kids, r.nk) :
                     kids \in {Append(acc, r.node)}}) :
               r \in {RegenerateKeys(node.nodes[i], keys, nk)}})

\* The set of the elements of a sequence.
Range1(seq) == {seq[i] : i \in 1..Len(seq)}

(***************************************************************************)
(* The primitive layer. Each primitive commits a new State and logs its    *)
(* call; with normalize on, it repairs the parent of the node it touched.  *)
(* A primitive whose key does not resolve faults: the Transform keeps the  *)
(* State of the last committed primitive.                                  *)
(***************************************************************************)

NewTransform(doc, sel, nk) == [doc |-> doc, sel |-> sel, ops |-> <<>>, nk |-> nk, err |-> FALSE]

Op(name, key, a, b, normalize) ==
  [op |-> name, key |-> key, a |-> a, b |-> b, normalize |-> normalize]

Fault(t, entry) == [t EXCEPT !.err = TRUE, !.ops = Append(@, entry)]

Commit(t, entry, doc, nk, nkey) ==
  IF entry.normalize
  THEN Then({[t EXCEPT !.doc = r.node, !.nk = r.nk, !.ops = Append(@, entry)] :
               r \in {NormalizeIn(doc, nkey, nk)}})
  ELSE [t EXCEPT !.doc = doc, !.nk = nk, !.ops = Append(@, entry)]

\* A key-addressed edit of one text leaf: chars is the leaf's new content.
EditText(t, entry, chars) ==
  IF t.err THEN t
  ELSE Then({IF p = NoPath \/ p = <<>> THEN Fault(t, entry)
             ELSE Then({Commit(t, entry, doc, t.nk, NodeAt(t.doc, Front(p)).key) :
                          doc \in {ReplaceAt(t.doc, p, [NodeAt(t.doc, p) EXCEPT !.chars = chars])}}) :
               p \in {GetPath(t.doc, entry.key)}})

Covered(i, index, length) == index <= i /\ i < index + length

RECURSIVE Uncovered(_, _, _, _)
\* The characters from the i-th on that are outside [index, index + length).
Uncovered(cs, i, index, length) ==
  IF i > Len(cs) THEN <<>>
  ELSE (IF Covered(i - 1, index, length) THEN <<>> ELSE <<cs[i]>>)
         \o Uncovered(cs, i + 1, index, length)

RemoveTextByKey(t, key, index, length, normalize) ==
  Then({EditText(t, Op("removeTextByKey", key, index, length, normalize), chars) :
          chars \in {Uncovered(GetDescendant(t.doc, key).chars, 1, index, length)}})

InsertTextByKey(t, key, offset, text, marks, normalize) ==
  Then({Then({EditText(t, Op("insertTextByKey", key, offset, Len(text), normalize), chars) :
                chars \in {Take(cs, offset) \o [i \in 1..Len(text) |-> Char(text[i], marks)]
                             \o Skip(cs, offset)}}) :
          cs \in {GetDescendant(t.doc, key).chars}})

AddMarkByKey(t, key, index, length, mark, normalize) ==
  Then({Then({EditText(t, Op("addMarkByKey", key, index, length, normalize), chars) :
                chars \in {[i \in 1..Len(cs) |->
                              IF Covered(i - 1, index, length)
                              THEN [cs[i] EXCEPT !.marks = @ \cup {mark}] ELSE cs[i]]}}) :
          cs \in {GetDescendant(t.doc, key).chars}})

RemoveMarkByKey(t, key, index, length, mark, normalize) ==
  Then({Then({EditText(t, Op("removeMarkByKey", key, index, length, normalize), chars) :
                chars \in {[i \in 1..Len(cs) |->
                              IF Covered(i - 1, index, length)
                              THEN [cs[i] EXCEPT !.marks = @ \ {mark}] ELSE cs[i]]}}) :
          cs \in {GetDescendant(t.doc, key).chars}})

\* The node at path p replaced, in its parent, by the two halves of split r.
SplitAt(doc, p, r) ==
  Then({ReplaceAt(doc, Front(p),
                  [parent EXCEPT !.nodes = SubSeq(@, 1, Last(p) - 1) \o <<r.one, r.two>>
                                             \o SubSeq(@, Last(p) + 1, Len(@))]) :
          parent \in {NodeAt(doc, Front(p))}})

SplitNodeByKey(t, key, offset, normalize) ==
  IF t.err THEN t
  ELSE Then({IF p = NoPath \/ p = <<>>
             THEN Fault(t, Op("splitNodeByKey", key, offset, 0, normalize))
             ELSE Then({IF ~r.ok THEN Fault(t, Op("splitNodeByKey", key, offset, 0, normalize))
                        ELSE Then({Commit(t, Op("splitNodeByKey", key, offset, 0, normalize),
                                          doc, r.nk, NodeAt(t.doc, Front(p)).key) :
                                     doc \in {SplitAt(t.doc, p, r)}}) :
                          r \in {SplitNode(NodeAt(t.doc, p), offset, t.nk)}}) :
               p \in {GetPath(t.doc, key)}})

RemoveNodeByKey(t, key, normalize) ==
  IF t.err THEN t
  ELSE Then({IF p = NoPath \/ p = <<>>
             THEN Fault(t, Op("removeNodeByKey", key, 0, 0, normalize))
             ELSE Then({Commit(t, Op("removeNodeByKey", key, 0, 0, normalize), doc, t.nk,
                               NodeAt(t.doc, Front(p)).key) :
                          doc \in {RemoveAt(t.doc, p)}}) :
               p \in {GetPath(t.doc, key)}})

\* The node goes in as it is, except that it and its descendants get a fresh
\* key where theirs is the key of a descendant of the receiving parent.
InsertNodeByKey(t, key, index, node, normalize) ==
  IF t.err THEN t
  ELSE Then({IF p = NoPath \/ node.kind = "null"
             THEN Fault(t, Op("insertNodeByKey", key, index, node.key, normalize))
             ELSE Then({Then({Commit(t, Op("insertNodeByKey", key, index, node.key, normalize),
                                     doc, r.nk, key) :
                                doc \in {InsertAt(t.doc, p, index, r.node)}}) :
                          r \in {RegenerateKeys(node, Range1(KeysOf(NodeAt(t.doc, p))), t.nk)}}) :
               p \in {GetPath(t.doc, key)}})

MoveNodeByKey(t, key, newKey, newIndex, normalize) ==
  IF t.err THEN t
  ELSE Then({IF p = NoPath \/ p = <<>>
             THEN Fault(t, Op("moveNodeByKey", key, newIndex, newKey, normalize))
             ELSE Then({Then({IF q = NoPath \/ NodeAt(removed, q).kind = "text"
                              THEN Fault(t, Op("moveNodeByKey", key, newIndex, newKey, normalize))
                              ELSE Then({Commit(t, Op("moveNodeByKey", key, newIndex, newKey, normalize),
                                                doc, t.nk, newKey) :
                                           doc \in {InsertAt(removed, q, newIndex, NodeAt(t.doc, p))}}) :
                                q \in {GetPath(removed, newKey)}}) :
                          removed \in {RemoveAt(t.doc, p)}}) :
               p \in {GetPath(t.doc, key)}})

SetNodeByKey(t, key, type, normalize) ==
  IF t.err THEN t
  ELSE Then({IF p = NoPath \/ p = <<>>
             THEN Fault(t, Op("setNodeByKey", key, 0, 0, normalize))
             ELSE Then({Commit(t, Op("setNodeByKey", key, 0, 0, normalize), doc, t.nk,
                               NodeAt(t.doc, Front(p)).key) :
                          doc \in {ReplaceAt(t.doc, p, [NodeAt(t.doc, p) EXCEPT !.type = type])}}) :
               p \in {GetPath(t.doc, key)}})

NormalizeNodeByKey(t, key) ==
  IF t.err THEN t
  ELSE Then({[t EXCEPT !.doc = r.node, !.nk = r.nk,
                       !.ops = Append(@, Op("normalizeNodeByKey", key, 0, 0, TRUE))] :
               r \in {NormalizeIn(t.doc, key, t.nk)}})

NormalizeDocument(t) ==
  IF t.err THEN t
  ELSE Then({[t EXCEPT !.doc = r.node, !.nk = r.nk,
                       !.ops = Append(@, Op("normalizeDocument", 0, 0, 0, TRUE))] :
               r \in {Repair(t.doc, t.nk)}})

(***************************************************************************)
(* The at-range operations. An option is "unset" (no normalize property),  *)
(* "true" or "false".                                                      *)
(***************************************************************************)

\* const { normalize = true } = options
Norm(opt) == opt # "false"

\* { normalize } handed on by an operation that resolved its own option.
Pass(opt) == IF Norm(opt) THEN "true" ELSE "false"

\* An exception thrown by the operation's own code.
Throw(t) == [t EXCEPT !.err = TRUE]

\* The (index, length) a mark operation hands to the primitive for one leaf.
MarkIndex(text, range) ==
  IF text.key = StartKey(range) THEN StartOffset(range) ELSE 0

MarkLength(text, range) ==
  IF text.key = StartKey(range) /\ text.key = EndKey(range)
  THEN EndOffset(range) - StartOffset(range)
  ELSE IF text.key = EndKey(range) THEN EndOffset(range)
  ELSE Len(text.chars)

RECURSIVE AddMarkEach(_, _, _, _, _, _)
\* texts.forEach of addMarkAtRange, from the i-th leaf on.
AddMarkEach(t, texts, i, range, mark, normalize) ==
  IF i > Len(texts) THEN t
  ELSE Then({AddMarkEach(u, texts, i + 1, range, mark, normalize) :
               u \in {AddMarkByKey(t, texts[i].key, MarkIndex(texts[i], range),
                                   MarkLength(texts[i], range), mark, normalize)}})

AsUnguardedAddMarkAtRange(t, range, mark, opt) ==
  IF t.err THEN t
  ELSE Then({AddMarkEach(t, texts, 1, range, mark, Norm(opt)) :
               texts \in {GetTextsAtRange(t.doc, range)}})

AddMarkAtRange(t, range, mark, opt) ==
  IF t.err \/ IsCollapsed(range) THEN t
  ELSE Then({AddMarkEach(t, texts, 1, range, mark, Norm(opt)) :
               texts \in {GetTextsAtRange(t.doc, range)}})

RECURSIVE RemoveMarkEach(_, _, _, _, _, _)
\* texts.forEach of removeMarkAtRange, from the i-th leaf on.
RemoveMarkEach(t, texts, i, range, mark, normalize) ==
  IF i > Len(texts) THEN t
  ELSE Then({RemoveMarkEach(u, texts, i + 1, range, mark, normalize) :
               u \in {RemoveMarkByKey(t, texts[i].key, MarkIndex(texts[i], range),
                                      MarkLength(texts[i], range), mark, normalize)}})

RemoveMarkAtRange(t, range, mark, opt) ==
  IF t.err \/ IsCollapsed(range) THEN t
  ELSE Then({RemoveMarkEach(t, texts, 1, range, mark, Norm(opt)) :
               texts \in {GetTextsAtRange(t.doc, range)}})

AsMarkOnSpannedLeaf(doc, range, mark) ==
  Then({\E i \in 1..Len(ts) : \E j \in 1..Len(ts[i].chars) : mark \in ts[i].chars[j].marks :
          ts \in {GetTextsAtRange(doc, range)}})

\* marks.some(m => m.equals(mark)) over document.getMarksAtRange(range)
MarkExists(doc, range, mark) == mark \in GetMarksAtRange(doc, range)

ToggleMarkAtRange(t, range, mark, opt) ==
  IF t.err \/ IsCollapsed(range) THEN t
  ELSE IF MarkExists(t.doc, range, mark)
  THEN RemoveMarkAtRange(t, range, mark, Pass(opt))
  ELSE AddMarkAtRange(t, range, mark, Pass(opt))

\* getFurthest(endBlock.key, p => p.nodes.size == 1) || endBlock
Lonely(doc, endBlock) ==
  Then({IF furthest.kind = "null" THEN endBlock ELSE furthest :
          furthest \in {GetFurthestLonely(doc, endBlock.key)}})

\* (child.kind == 'text' ? 0 : child.getOffset(key)) + offset
OffsetIn(child, key, offset) ==
  (IF child.kind = "text" THEN 0 ELSE GetOffset(child, key)) + offset

RECURSIVE RemoveEach(_, _, _)
\* middles.forEach: remove the nodes from the i-th on, without normalizing.
RemoveEach(t, nodes, i) ==
  IF i > Len(nodes) THEN t
  ELSE Then({RemoveEach(u, nodes, i + 1) : u \in {RemoveNodeByKey(t, nodes[i].key, FALSE)}})

RECURSIVE MoveEach(_, _, _, _, _)
\* endBlock.nodes.forEach: move the nodes from the i-th on to the end of the
\* start block, whose size was size.
MoveEach(t, nodes, i, newKey, size) ==
  IF i > Len(nodes) THEN t
  ELSE Then({MoveEach(u, nodes, i + 1, newKey, size) :
               u \in {MoveNodeByKey(t, nodes[i].key, newKey, size + i - 1, FALSE)}})

\* Lines 107-116: the end block's nodes go to the start block and the end
\* block, or its furthest single-child ancestor, goes away.
MergeBlocks(t, doc, startBlock, endBlock) ==
  Then({RemoveNodeByKey(u, lonely.key, FALSE) :
          u \in {MoveEach(t, endBlock.nodes, 1, startBlock.key, Len(startBlock.nodes))},
          lonely \in {Lonely(doc, endBlock)}})

\* Lines 102-120, on the document as it was after the splits.
DeleteMerge(t, doc, ancestor, range, opt) ==
  IF t.err THEN t
  ELSE Then({IF startBlock.kind = "null" \/ nextText.kind = "null" THEN Throw(t)
             ELSE Then({IF endBlock.kind = "null" THEN Throw(t)
                        ELSE Then({IF Norm(opt) THEN NormalizeNodeByKey(u, ancestor.key) ELSE u :
                                     u \in {IF startBlock.key # endBlock.key
                                            THEN MergeBlocks(t, doc, startBlock, endBlock)
                                            ELSE t}}) :
                          endBlock \in {GetClosestBlock(doc, nextText.key)}}) :
               startBlock \in {GetClosestBlock(doc, StartKey(range))},
               nextText \in {GetNextText(doc, EndKey(range))}})

\* Lines 85-100: the variables refreshed, the middle nodes removed.
DeleteMiddles(t, range, opt) ==
  IF t.err THEN t
  ELSE Then({Then({Then({Then({DeleteMerge(u, t.doc, ancestor, range, opt) :
                                 u \in {RemoveEach(t, middles, 1)}}) :
                           middles \in {Slice(ancestor.nodes,
                                              IndexOf(ancestor.nodes, startChild) + 1,
                                              IndexOf(ancestor.nodes, endChild) + 1)}}) :
                     startChild \in {GetHighestChild(ancestor, StartKey(range))},
                     endChild \in {GetHighestChild(ancestor, EndKey(range))}}) :
               ancestor \in {GetCommonAncestor(t.doc, StartKey(range), EndKey(range))}})

\* Lines 73-120: the range spans several leaves.
DeleteAcross(t, range, opt) ==
  Then({Then({Then({Then({DeleteMiddles(t2, range, opt) :
                            t2 \in {SplitNodeByKey(t1, endChild.key, endOff, FALSE)}}) :
                      t1 \in {SplitNodeByKey(t, startChild.key, startOff, FALSE)},
                      endOff \in {OffsetIn(endChild, EndKey(range), EndOffset(range))}}) :
                startChild \in {GetHighestChild(ancestor, StartKey(range))},
                endChild \in {GetHighestChild(ancestor, EndKey(range))},
                startOff \in {OffsetIn(GetHighestChild(ancestor, StartKey(range)),
                                       StartKey(range), StartOffset(range))}}) :
          ancestor \in {GetCommonAncestor(t.doc, StartKey(range), EndKey(range))}})

DeleteAtRange(t, range, opt) ==
  IF t.err \/ IsCollapsed(range) THEN t
  ELSE IF StartKey(range) = EndKey(range)
  THEN RemoveTextByKey(t, StartKey(range), StartOffset(range),
                       EndOffset(range) - StartOffset(range), Norm(opt))
  ELSE DeleteAcross(t, range, opt)

\* Lines 215-243: the caret is at the start of its text leaf.
DeleteBackwardJoin(t, range, block, opt) ==
  Then({Then({IF prevBlock.isVoid THEN RemoveNodeByKey(t, prevBlock.key, Norm(opt))
              ELSE IF prevInline.isVoid THEN RemoveNodeByKey(t, prevInline.key, Norm(opt))
              ELSE IF prev.kind = "null" THEN Throw(t)
              ELSE DeleteAtRange(t, [range EXCEPT !.anchorKey = prev.key,
                                                  !.anchorOffset = IF prevBlock = block
                                                                   THEN Len(prev.chars) - 1
                                                                   ELSE Len(prev.chars)],
                                 Pass(opt)) :
                prevBlock \in {GetClosestBlock(t.doc, prev.key)},
                prevInline \in {GetClosestInline(t.doc, prev.key)}}) :
          prev \in {GetPreviousText(t.doc, StartKey(range))}})

AsUnboundedDeleteBackwardAtRange(t, range, n, opt) ==
  IF t.err THEN t
  ELSE IF IsExpanded(range) THEN DeleteAtRange(t, range, Pass(opt))
  ELSE Then({IF block.isVoid THEN RemoveNodeByKey(t, block.key, Norm(opt))
             ELSE IF inline.isVoid THEN RemoveNodeByKey(t, inline.key, Norm(opt))
             ELSE IF text.kind = "null" THEN Throw(t)
             ELSE IF IsAtStartOf(range, text) THEN DeleteBackwardJoin(t, range, block, opt)
             ELSE DeleteAtRange(t, [range EXCEPT !.focusOffset = range.focusOffset - n,
                                                 !.isBackward = TRUE], Pass(opt)) :
               block \in {GetClosestBlock(t.doc, StartKey(range))},
               inline \in {GetClosestInline(t.doc, StartKey(range))},
               text \in {GetDescendant(t.doc, StartKey(range))}})

DeleteBackwardAtRange(t, range, n, opt) ==
  IF t.err THEN t
  ELSE IF IsExpanded(range) THEN DeleteAtRange(t, range, Pass(opt))
  ELSE Then({IF block.isVoid THEN RemoveNodeByKey(t, block.key, Norm(opt))
             ELSE IF inline.isVoid THEN RemoveNodeByKey(t, inline.key, Norm(opt))
             ELSE IF IsAtStartOf(range, t.doc) THEN t
             ELSE IF text.kind = "null" THEN Throw(t)
             ELSE IF IsAtStartOf(range, text) THEN DeleteBackwardJoin(t, range, block, opt)
             ELSE DeleteAtRange(t, [range EXCEPT !.focusOffset = range.focusOffset - n,
                                                 !.isBackward = TRUE], Pass(opt)) :
               block \in {GetClosestBlock(t.doc, StartKey(range))},
               inline \in {GetClosestInline(t.doc, StartKey(range))},
               text \in {GetDescendant(t.doc, StartKey(range))}})

AsVoidBlindDeleteForwardJoin(t, range, block, opt) ==
  Then({Then({IF next.kind = "null" THEN Throw(t)
              ELSE DeleteAtRange(t, [range EXCEPT !.focusKey = next.key,
                                                  !.focusOffset = IF nextBlock = block
                                                                  THEN 1 ELSE 0],
                                 Pass(opt)) :
                nextBlock \in {GetClosestBlock(t.doc, next.key)}}) :
          next \in {GetNextText(t.doc, StartKey(range))}})

\* Lines 341-366: the caret is at the end of its text leaf.
DeleteForwardJoin(t, range, block, opt) ==
  Then({Then({IF nextBlock.isVoid THEN RemoveNodeByKey(t, nextBlock.key, Norm(opt))
              ELSE IF nextInline.isVoid THEN RemoveNodeByKey(t, nextInline.key, Norm(opt))
              ELSE IF next.kind = "null" THEN Throw(t)
              ELSE DeleteAtRange(t, [range EXCEPT !.focusKey = next.key,
                                                  !.focusOffset = IF nextBlock = block
                                                                  THEN 1 ELSE 0],
                                 Pass(opt)) :
                nextBlock \in {GetClosestBlock(t.doc, next.key)},
                nextInline \in {GetClosestInline(t.doc, next.key)}}) :
          next \in {GetNextText(t.doc, StartKey(range))}})

DeleteForwardAtRange(t, range, n, opt) ==
  IF t.err THEN t
  ELSE IF IsExpanded(range) THEN DeleteAtRange(t, range, Pass(opt))
  ELSE Then({IF block.isVoid THEN RemoveNodeByKey(t, block.key, Norm(opt))
             ELSE IF inline.isVoid THEN RemoveNodeByKey(t, inline.key, Norm(opt))
             ELSE IF IsAtEndOf(range, t.doc) THEN t
             ELSE IF text.kind = "null" THEN Throw(t)
             ELSE IF IsAtEndOf(range, text) THEN DeleteForwardJoin(t, range, block, opt)
             ELSE DeleteAtRange(t, [range EXCEPT !.focusOffset = range.focusOffset + n],
                                Pass(opt)) :
               block \in {GetClosestBlock(t.doc, StartKey(range))},
               inline \in {GetClosestInline(t.doc, StartKey(range))},
               text \in {GetDescendant(t.doc, StartKey(range))}})

(***************************************************************************)
(* The text-boundary utility and the character, word and line deletions.   *)
(* They read the offset and the block of the State's selection, not of the *)
(* range they are handed.                                                  *)
(***************************************************************************)

\* The characters that are not word characters: spaces and punctuation.
Spaces == {3}

IsWordCharacter(ch) == ch.c \notin Spaces

Reverse(seq) == [i \in 1..Len(seq) |-> seq[Len(seq) + 1 - i]]

\* String.getCharOffset: the length of the first character of the text.
GetCharOffset(text) == IF Len(text) = 0 THEN 0 ELSE 1

RECURSIVE GetWordOffsetFrom(_, _, _)
\* String.getWordOffset from the i-th character on: the characters that are
\* not word characters, then the word characters up to the next one that is
\* not.
GetWordOffsetFrom(text, i, started) ==
  IF i > Len(text) THEN 0
  ELSE IF IsWordCharacter(text[i]) THEN 1 + GetWordOffsetFrom(text, i + 1, TRUE)
  ELSE IF ~started THEN 1 + GetWordOffsetFrom(text, i + 1, FALSE)
  ELSE 0

GetCharOffsetBackward(text, offset) == GetCharOffset(Reverse(Take(text, offset)))

GetCharOffsetForward(text, offset) == GetCharOffset(Skip(text, offset))

GetWordOffsetBackward(text, offset) == GetWordOffsetFrom(Reverse(Take(text, offset)), 1, FALSE)

GetWordOffsetForward(text, offset) == GetWordOffsetFrom(Skip(text, offset), 1, FALSE)

\* state.startBlock: the closest block of the leaf the State's selection
\* starts in.
StateStartBlock(t) == GetClosestBlock(t.doc, StartKey(t.sel))

DeleteCharBackwardAtRange(t, range, opt) ==
  Then({DeleteBackwardAtRange(t, range, n, opt) :
          n \in {GetCharOffsetBackward(CharsOf(StateStartBlock(t)), StartOffset(t.sel))}})

DeleteLineBackwardAtRange(t, range, opt) ==
  DeleteBackwardAtRange(t, range, StartOffset(t.sel), opt)

DeleteWordBackwardAtRange(t, range, opt) ==
  Then({DeleteBackwardAtRange(t, range, n, opt) :
          n \in {GetWordOffsetBackward(CharsOf(StateStartBlock(t)), StartOffset(t.sel))}})

DeleteCharForwardAtRange(t, range, opt) ==
  Then({DeleteForwardAtRange(t, range, n, opt) :
          n \in {GetCharOffsetForward(CharsOf(StateStartBlock(t)), StartOffset(t.sel))}})

DeleteLineForwardAtRange(t, range, opt) ==
  Then({DeleteForwardAtRange(t, range, n, opt) :
          n \in {Length(StateStartBlock(t)) - StartOffset(t.sel)}})

DeleteWordForwardAtRange(t, range, opt) ==
  Then({DeleteForwardAtRange(t, range, n, opt) :
          n \in {GetWordOffsetForward(CharsOf(StateStartBlock(t)), StartOffset(t.sel))}})

AsPlaceBlockAfter(t, range, block, normalize, startText, startBlock, parent, index) ==
  InsertNodeByKey(t, parent.key, index + 1, block, normalize)

\* Lines 402-423: where the block goes.
PlaceBlock(t, range, block, normalize, startText, startBlock, parent, index) ==
  IF startBlock.isVoid
  THEN InsertNodeByKey(t, parent.key, index + 1, block, normalize)
  ELSE IF IsEmpty(startBlock)
  THEN Then({InsertNodeByKey(u, parent.key, index, block, normalize) :
               u \in {RemoveNodeByKey(t, startBlock.key, TRUE)}})
  ELSE IF IsAtStartOf(range, startBlock)
  THEN InsertNodeByKey(t, parent.key, index, block, normalize)
  ELSE IF IsAtEndOf(range, startBlock)
  THEN InsertNodeByKey(t, parent.key, index + 1, block, normalize)
  ELSE Then({InsertNodeByKey(u, parent.key, index + 1, block, normalize) :
               u \in {SplitNodeByKey(t, startBlock.key,
                                     GetOffset(startBlock, startText.key) + StartOffset(range),
                                     normalize)}})

\* Lines 394-427, for a collapsed range.
InsertBlockAtPoint(t, range, block, opt) ==
  IF t.err THEN t
  ELSE Then({IF startText.kind = "null" \/ startBlock.kind = "null" THEN Throw(t)
             ELSE Then({IF parent.kind = "null" THEN Throw(t)
                        ELSE Then({IF Norm(opt) THEN NormalizeNodeByKey(u, parent.key) ELSE u :
                                     u \in {PlaceBlock(t, range, block, Norm(opt), startText,
                                                       startBlock, parent,
                                                       IndexOf(parent.nodes, startBlock))}}) :
                          parent \in {GetParent(t.doc, startBlock.key)}}) :
               startText \in {GetDescendant(t.doc, StartKey(range))},
               startBlock \in {GetClosestBlock(t.doc, StartKey(range))}})

InsertBlockAtRange(t, range, block, opt) ==
  IF t.err THEN t
  ELSE IF IsExpanded(range)
  THEN Then({InsertBlockAtPoint(u, CollapseToStart(range), block, opt) :
               u \in {DeleteAtRange(t, range, "unset")}})
  ELSE InsertBlockAtPoint(t, range, block, opt)

\* Lines 561-575, for a collapsed range.
InsertInlineAtPoint(t, range, inline, opt) ==
  IF t.err THEN t
  ELSE Then({IF parent.kind = "null" \/ startText.kind = "null" THEN Throw(t)
             ELSE IF parent.isVoid THEN t
             ELSE Then({Then({IF Norm(opt) THEN NormalizeNodeByKey(t2, parent.key) ELSE t2 :
                                t2 \in {InsertNodeByKey(t1, parent.key,
                                                        IndexOf(parent.nodes, startText) + 1,
                                                        inline, FALSE)}}) :
                          t1 \in {SplitNodeByKey(t, StartKey(range), StartOffset(range), FALSE)}}) :
               parent \in {GetParent(t.doc, StartKey(range))},
               startText \in {GetDescendant(t.doc, StartKey(range))}})

InsertInlineAtRange(t, range, inline, opt) ==
  IF t.err THEN t
  ELSE IF IsExpanded(range)
  THEN Then({InsertInlineAtPoint(u, CollapseToStart(range), inline, opt) :
               u \in {DeleteAtRange(t, range, "false")}})
  ELSE InsertInlineAtPoint(t, range, inline, opt)

\* Lines 603-607: the normalize the text primitive runs with. An option that
\* was given, whatever its value, becomes range.isExpanded; with none given
\* the primitive gets undefined and falls back on its default.
TextNormalize(range, opt) == IF opt = "unset" THEN TRUE ELSE IsExpanded(range)

InsertTextAtRange(t, range, text, marks, opt) ==
  IF t.err THEN t
  ELSE Then({IF parent.kind = "null" THEN Throw(t)
             ELSE IF parent.isVoid THEN t
             ELSE Then({InsertTextByKey(u, StartKey(range), StartOffset(range), text, marks,
                                        TextNormalize(range, opt)) :
                          u \in {IF IsExpanded(range) THEN DeleteAtRange(t, range, "false")
                                 ELSE t}}) :
               parent \in {GetParent(t.doc, StartKey(range))}})

RECURSIVE SplitClimb(_, _, _, _, _, _, _)
\* The while loops of lines 710-715 and 746-751: the node to split, and the
\* offset in it, h levels up.
SplitClimb(doc, node, parent, offset, h, height, kind) ==
  IF parent.kind = kind /\ h < height
  THEN Then({SplitClimb(doc, parent, up, above, h + 1, height, kind) :
               up \in {GetClosestOfKind(doc, parent.key, kind)},
               above \in {offset + GetOffset(parent, node.key)}})
  ELSE [key |-> node.key, offset |-> offset]

\* Lines 702-717 and 738-753, for a collapsed range.
SplitAtPoint(t, range, height, opt, kind) ==
  IF t.err THEN t
  ELSE Then({IF node.kind = "null" THEN Throw(t)
             ELSE Then({SplitNodeByKey(t, target.key, target.offset, Norm(opt)) :
                          target \in {SplitClimb(t.doc, node, parent, StartOffset(range), 0,
                                                 height, kind)}}) :
               node \in {GetDescendant(t.doc, StartKey(range))},
               parent \in {GetClosestOfKind(t.doc, StartKey(range), kind)}})

SplitBlockAtRange(t, range, height, opt) ==
  IF t.err THEN t
  ELSE IF IsExpanded(range)
  THEN Then({SplitAtPoint(u, CollapseToStart(range), height, opt, "block") :
               u \in {DeleteAtRange(t, range, Pass(opt))}})
  ELSE SplitAtPoint(t, range, height, opt, "block")

SplitInlineAtRange(t, range, height, opt) ==
  IF t.err THEN t
  ELSE IF IsExpanded(range)
  THEN Then({SplitAtPoint(u, CollapseToStart(range), height, opt, "inline") :
               u \in {DeleteAtRange(t, range, Pass(opt))}})
  ELSE SplitAtPoint(t, range, height, opt, "inline")

RECURSIVE ClosestEach(_, _, _, _)
\* The closest ancestors of the kind of the leaves from the i-th on, each once,
\* in document order.
ClosestEach(doc, texts, i, kind) ==
  IF i > Len(texts) THEN <<>>
  ELSE Then({Then({IF node.kind = "null" \/ \E j \in 1..Len(rest) : rest[j].key = node.key
                   THEN rest ELSE <<node>> \o rest :
                     rest \in {ClosestEach(doc, texts, i + 1, kind)}}) :
               node \in {GetClosestOfKind(doc, texts[i].key, kind)}})

GetBlocksAtRange(doc, range) ==
  Then({ClosestEach(doc, texts, 1, "block") : texts \in {GetTextsAtRange(doc, range)}})

GetInlinesAtRange(doc, range) ==
  Then({ClosestEach(doc, texts, 1, "inline") : texts \in {GetTextsAtRange(doc, range)}})

RECURSIVE SetEach(_, _, _, _, _)
\* blocks.forEach / inlines.forEach of the set operations.
SetEach(t, nodes, i, type, normalize) ==
  IF i > Len(nodes) THEN t
  ELSE Then({SetEach(u, nodes, i + 1, type, normalize) :
               u \in {SetNodeByKey(t, nodes[i].key, type, normalize)}})

SetBlockAtRange(t, range, type, opt) ==
  IF t.err THEN t
  ELSE Then({SetEach(t, blocks, 1, type, Norm(opt)) :
               blocks \in {GetBlocksAtRange(t.doc, range)}})

SetInlineAtRange(t, range, type, opt) ==
  IF t.err THEN t
  ELSE Then({SetEach(t, inlines, 1, type, Norm(opt)) :
               inlines \in {GetInlinesAtRange(t.doc, range)}})

(***************************************************************************)
(* Wrapping blocks in a block and unwrapping them.                         *)
(***************************************************************************)

\* getNextBlock(key): the closest block of the text leaf after the last leaf
\* of the block with the key, or of the block around the node with the key.
GetNextBlock(doc, key) ==
  Then({Then({Then({IF next.kind = "null" THEN Null ELSE GetClosestBlock(doc, next.key) :
                      next \in {GetNextText(doc, last.key)}}) :
                last \in {IF child.kind = "block" THEN GetLastText(child)
                          ELSE GetLastText(GetClosestBlock(doc, key))}}) :
          child \in {GetDescendant(doc, key)}})

\* Lines 1014-1018: the closest ancestor of the first block, the document
\* excluded, that is an ancestor of the last block too; the document when
\* there is none.
SharedParent(doc, firstblock, lastblock) ==
  Then({Then({IF hits = {} THEN doc ELSE as[Greatest(hits)] :
                hits \in {{i \in 2..Len(as) : \E j \in 2..Len(bs) : bs[j] = as[i]}}}) :
          as \in {GetAncestors(doc, firstblock.key)},
          bs \in {GetAncestors(doc, lastblock.key)}})

\* Lines 1025-1029: the index of the child of parent that is, or holds, the
\* block (-1 for the undefined entry of indexes).
SiblingIndex(parent, block) ==
  Then({IF hits = {} THEN -1 ELSE Greatest(hits) - 1 :
          hits \in {{i \in 1..Len(parent.nodes) :
                       parent.nodes[i] = block \/ HasDescendant(parent.nodes[i], block.key)}}})

\* Lines 1021-1047. blocks is a List, whose length property is undefined, so
\* the test of line 1004 fails and the shared parent is looked up always.
WrapSiblings(t, block, opt, parent, from, to) ==
  Then({Then({Then({IF Norm(opt) THEN NormalizeNodeByKey(u2, parent.key) ELSE u2 :
                      u2 \in {MoveEach(u1, siblings, 1, block.key, 0)}}) :
                u1 \in {InsertNodeByKey(t, parent.key, from, block, FALSE)}}) :
          siblings \in {Slice(parent.nodes, from, to + 1)}})

WrapBlockAtRange(t, range, block, opt) ==
  IF t.err THEN t
  ELSE Then({IF blocks = <<>> THEN Throw(t)
             ELSE Then({WrapSiblings(t, [block EXCEPT !.nodes = <<>>], opt, parent,
                                     SiblingIndex(parent, blocks[1]),
                                     SiblingIndex(parent, blocks[Len(blocks)])) :
                          parent \in {SharedParent(t.doc, blocks[1], blocks[Len(blocks)])}}) :
               blocks \in {GetBlocksAtRange(t.doc, range)}})

\* getClosest with the test of lines 806-811 and 899-905 for properties that
\* name a type only: the closest ancestor of the kind and of that type.
GetClosestOfType(doc, key, kind, type) ==
  Then({Then({IF hits = {} THEN Null ELSE ancestors[Greatest(hits)] :
                hits \in {{i \in 2..Len(ancestors) :
                             ancestors[i].kind = kind /\ ancestors[i].type = type}}}) :
          ancestors \in {GetAncestors(doc, key)}})

RECURSIVE WrappersFrom(_, _, _, _, _, _)
\* Lines 803-815 and 896-908: the matching wrappers of the nodes from the
\* i-th on, each once, in the order they are first met, after the ones in
\* found.
WrappersFrom(doc, nodes, i, kind, type, found) ==
  IF i > Len(nodes) THEN found
  ELSE Then({WrappersFrom(doc, nodes, i + 1, kind, type,
                          IF w.kind = "null" \/ \E j \in 1..Len(found) : found[j] = w
                          THEN found ELSE Append(found, w)) :
               w \in {GetClosestOfType(doc, nodes[i].key, kind, type)}})

RECURSIVE PickFrom(_, _, _)
\* The elements of seq at the indexes in hits, from the i-th on.
PickFrom(seq, hits, i) ==
  IF i > Len(seq) THEN <<>>
  ELSE (IF i \in hits THEN <<seq[i]>> ELSE <<>>) \o PickFrom(seq, hits, i + 1)

RECURSIVE MoveMatched(_, _, _, _, _, _)
\* Lines 857-865: the children.forEach after the wrapper was split, on the
\* document as it was after the split.
MoveMatched(t, doc, children, i, newKey, index) ==
  IF i > Len(children) \/ t.err THEN t
  ELSE IF i = 1
  THEN Then({IF child.kind = "null" THEN Throw(u)
             ELSE Then({MoveMatched(v, doc, children, i + 1, newKey, index) :
                          v \in {MoveNodeByKey(u, child.key, newKey, index + 1, FALSE)}}) :
               child \in {GetNextBlock(doc, children[1].key)},
               u \in {RemoveNodeByKey(t, children[1].key, FALSE)}})
  ELSE Then({MoveMatched(v, doc, children, i + 1, newKey, index) :
               v \in {MoveNodeByKey(t, children[i].key, newKey, index + i, FALSE)}})

AsUnwrapOneKeepingWrapper(t, doc, block, parent, index, hits) ==
  [doc |-> doc, t |-> MoveEach(t, block.nodes, 1, parent.key, index)]

\* Lines 817-871 for one wrapper, block, as it was found in the document the
\* operation started with; doc is the operation's document variable. The
\* result is the Transform and the document variable afterwards.
UnwrapOne(t, doc, block, parent, index, hits) ==
  IF 1 \in hits /\ Len(block.nodes) \in hits
  THEN [doc |-> doc,
        t |-> Then({RemoveNodeByKey(u, block.key, FALSE) :
                      u \in {MoveEach(t, block.nodes, 1, parent.key, index)}})]
  ELSE IF Len(block.nodes) \in hits
  THEN [doc |-> doc,
        t |-> MoveEach(t, Skip(block.nodes, Least(hits) - 1), 1, parent.key, index + 1)]
  ELSE IF 1 \in hits
  THEN [doc |-> doc,
        t |-> MoveEach(t, Take(block.nodes, Greatest(hits)), 1, parent.key, index)]
  ELSE Then({[doc |-> u.doc,
              t |-> MoveMatched(u, u.doc, PickFrom(block.nodes, hits, 1), 1, parent.key, index)] :
               u \in {SplitNodeByKey(t, block.key,
                                     GetOffset(block, block.nodes[Least(hits)].key), FALSE)}})

RECURSIVE UnwrapEach(_, _, _, _, _)
\* wrappers.forEach of line 816, from the i-th wrapper on.
UnwrapEach(t, doc, blocks, wrappers, i) ==
  IF i > Len(wrappers) \/ t.err THEN t
  ELSE Then({IF parent.kind = "null" THEN Throw(t)
             ELSE Then({UnwrapEach(r.t, r.doc, blocks, wrappers, i + 1) :
                          r \in {UnwrapOne(t, doc, wrappers[i], parent,
                                           IndexOf(parent.nodes, wrappers[i]),
                                           {k \in 1..Len(wrappers[i].nodes) :
                                              \E j \in 1..Len(blocks) :
                                                \/ wrappers[i].nodes[k] = blocks[j]
                                                \/ HasDescendant(wrappers[i].nodes[k],
                                                                 blocks[j].key)})}}) :
               parent \in {GetParent(doc, wrappers[i].key)}})

UnwrapBlockAtRange(t, range, type, opt) ==
  IF t.err THEN t
  ELSE Then({Then({IF Norm(opt) THEN NormalizeDocument(u) ELSE u :
                     u \in {UnwrapEach(t, t.doc, blocks,
                                       WrappersFrom(t.doc, blocks, 1, "block", type, <<>>), 1)}}) :
               blocks \in {GetBlocksAtRange(t.doc, range)}})

(***************************************************************************)
(* Inserting a fragment.                                                   *)
(***************************************************************************)

\* getNextSibling(key): the child of node after its child with the key.
GetNextSibling(node, key) ==
  Then({IF i = 0 \/ i = Len(node.nodes) THEN Null ELSE node.nodes[i + 1] :
          i \in {IndexOfKey(node.nodes, key) + 1}})

\* fragment.getBlocks(): the blocks that hold the fragment's text leaves.
GetBlocks(node) == ClosestEach(node, GetTexts(node), 1, "block")

RECURSIVE InsertEach(_, _, _, _, _)
\* nodes.forEach: insert the nodes from the i-th on under the key, the first
\* of all at index base.
InsertEach(t, nodes, i, key, base) ==
  IF i > Len(nodes) THEN t
  ELSE Then({InsertEach(u, nodes, i + 1, key, base) :
               u \in {InsertNodeByKey(t, key, base + i - 1, nodes[i], FALSE)}})

\* Lines 477-487: a fragment of several blocks goes in after the start block,
\* without its first block or the furthest single-child ancestor of it.
InsertRest(t, fragment, firstBlock, parent, startIndex) ==
  Then({Then({InsertEach(t, RemoveAt(fragment, GetPath(fragment, lonelyChild.key)).nodes,
                         1, parent.key, startIndex + 1) :
                lonelyChild \in {IF lonelyParent.kind = "null" THEN firstBlock
                                 ELSE lonelyParent}}) :
          lonelyParent \in {GetFurthestLonely(fragment, firstBlock.key)}})

\* Lines 505-513: the nodes of the start block from nextChild on go to the end
\* of the fragment's last block.
MoveRest(t, startBlock, startChild, lastBlock, isAtStart) ==
  Then({MoveEach(t,
                 IF nextChild.kind = "null" THEN <<>>
                 ELSE Skip(startBlock.nodes, IndexOfKey(startBlock.nodes, nextChild.key)),
                 1, lastBlock.key, Len(lastBlock.nodes)) :
          nextChild \in {IF isAtStart THEN startChild
                         ELSE GetNextSibling(startBlock, startChild.key)}})

\* Lines 517-534: the first block replaces an empty start block, or its nodes
\* go into the start block.
PlaceFirst(t, range, startBlock, startChild, firstBlock, parent, index) ==
  IF IsEmpty(startBlock)
  THEN Then({InsertNodeByKey(u, parent.key, index, firstBlock, FALSE) :
               u \in {RemoveNodeByKey(t, startBlock.key, FALSE)}})
  ELSE InsertEach(t, firstBlock.nodes, 1, startBlock.key,
                  IndexOf(startBlock.nodes, startChild)
                    + (IF StartOffset(range) = 0 THEN 0 ELSE 1))

\* Lines 494-539, on the State after the split.
FragmentAfterSplit(t, range, firstBlock, lastBlock, isAtStart, parent, index, opt) ==
  IF t.err THEN t
  ELSE Then({IF startBlock.kind = "null" \/ startText.kind = "null" THEN Throw(t)
             ELSE Then({Then({Then({IF Norm(opt) THEN NormalizeNodeByKey(u2, parent.key)
                                    ELSE u2 :
                                      u2 \in {PlaceFirst(u1, range, startBlock, startChild,
                                                         firstBlock, parent, index)}}) :
                                u1 \in {IF firstBlock # lastBlock
                                        THEN MoveRest(t, startBlock, startChild, lastBlock,
                                                      isAtStart)
                                        ELSE t}}) :
                          startChild \in {GetHighestChild(startBlock, startText.key)}}) :
               startText \in {GetDescendant(t.doc, StartKey(range))},
               startBlock \in {GetClosestBlock(t.doc, StartKey(range))}})

\* Lines 460-491, with the fragment's blocks at hand.
FragmentBeforeSplit(t, range, fragment, opt, startText, startBlock, firstBlock, lastBlock) ==
  Then({Then({Then({FragmentAfterSplit(u2, range, firstBlock, lastBlock,
                                       IsAtStartOf(range, startBlock), parent,
                                       IndexOf(parent.nodes, startBlock), opt) :
                      u2 \in {IF StartOffset(range) # 0
                              THEN SplitNodeByKey(u1, startChild.key,
                                                  (IF startChild = startText THEN 0
                                                   ELSE GetOffset(startChild, startText.key))
                                                    + StartOffset(range), FALSE)
                              ELSE u1}}) :
                u1 \in {IF firstBlock # lastBlock
                        THEN InsertRest(t, fragment, firstBlock, parent,
                                        IndexOf(parent.nodes, startBlock))
                        ELSE t}}) :
          startChild \in {GetHighestChild(startBlock, startText.key)},
          parent \in {GetParent(t.doc, startBlock.key)}})

\* Lines 449-475, for a collapsed range: the keys of the fragment's nodes are
\* regenerated.
InsertFragmentAtPoint(t, range, fragment, opt) ==
  IF t.err \/ Length(fragment) = 0 THEN t
  ELSE Then({Then({IF startText.kind = "null" \/ startBlock.kind = "null" THEN Throw(t)
                   ELSE FragmentBeforeSplit([t EXCEPT !.nk = r.nk], range, r.node, opt,
                                            startText, startBlock,
                                            blocks[1], blocks[Len(blocks)]) :
                     blocks \in {GetBlocks(r.node)}}) :
               r \in {RegenerateKeys(fragment, Range1(KeysOf(fragment)), t.nk)},
               startText \in {GetDescendant(t.doc, StartKey(range))},
               startBlock \in {GetClosestBlock(t.doc, StartKey(range))}})

InsertFragmentAtRange(t, range, fragment, opt) ==
  IF t.err THEN t
  ELSE IF IsExpanded(range)
  THEN Then({InsertFragmentAtPoint(u, CollapseToStart(range), fragment, opt) :
               u \in {DeleteAtRange(t, range, "false")}})
  ELSE InsertFragmentAtPoint(t, range, fragment, opt)

(***************************************************************************)
(* Wrapping in an inline.                                                  *)
(***************************************************************************)

\* regenerateKey(): the node under the Transform's next fresh key.
RegenerateKey(t, node) == [node EXCEPT !.key = t.nk]

\* The Transform after a key was generated.
Generated(t) == [t EXCEPT !.nk = @ + 1]

\* wrapInlineByKey: the emptied inline goes in at the node's place, without
\* normalizing, and the node moves into it.
WrapInlineByKey(t, key, inline, opt) ==
  IF t.err THEN t
  ELSE Then({IF parent.kind = "null" THEN Throw(t)
             ELSE Then({MoveNodeByKey(u, key, inline.key, 0, Norm(opt)) :
                          u \in {InsertNodeByKey(t, parent.key, IndexOfKey(parent.nodes, key),
                                                 [inline EXCEPT !.nodes = <<>>], FALSE)}}) :
               parent \in {GetParent(t.doc, key)}})

\* startBlock.nodes.skipUntil(startInner).takeUntil(endInner).push(endInner)
InnerNodes(nodes, startInner, endInner) ==
  Then({Then({Append(IF ei < 0 THEN rest ELSE Take(rest, ei), endInner) :
                ei \in {IndexOf(rest, endInner)}}) :
          rest \in {Then({IF si < 0 THEN <<>> ELSE Skip(nodes, si) :
                            si \in {IndexOf(nodes, startInner)}})}})

\* Lines 1103-1131: the wrapper goes in where the first inner node is and the
\* inner nodes move into it.
WrapInner(t, inline, opt, startBlock, startInner, endInner) ==
  Then({Then({IF Norm(opt) THEN NormalizeNodeByKey(u2, startBlock.key) ELSE u2 :
                u2 \in {MoveEach(u1, InnerNodes(startBlock.nodes, startInner, endInner),
                                 1, t.nk, 0)}}) :
          u1 \in {InsertNodeByKey(Generated(t), startBlock.key,
                                  IndexOf(startBlock.nodes, startInner),
                                  RegenerateKey(t, inline), FALSE)}})

\* Lines 1095-1131: start and end in one block.
WrapInBlock(t, range, inline, opt, startChild, endChild, startOff, endOff) ==
  Then({IF u.err THEN u
        ELSE Then({Then({Then({Then({IF startInner.kind = "null" \/ endInner.kind = "null"
                                     THEN Throw(u)
                                     ELSE WrapInner(u, inline, opt, block, startInner, endInner) :
                                       endInner \in {IF StartKey(range) = EndKey(range)
                                                     THEN startInner
                                                     ELSE GetHighestChild(block, EndKey(range))}}) :
                                 startInner \in {IF startOff = 0 \/ child.kind = "null"
                                                 THEN child
                                                 ELSE GetNextSibling(block, child.key)}}) :
                           child \in {GetHighestChild(block, StartKey(range))}}) :
                     block \in {GetClosestBlock(u.doc, StartKey(range))}}) :
    u \in {Then({IF startOff # 0 THEN SplitNodeByKey(u0, startChild.key, startOff, FALSE)
                 ELSE u0 :
                   u0 \in {IF endOff # Length(endChild)
                           THEN SplitNodeByKey(t, endChild.key, endOff, FALSE) ELSE t}})}})

RECURSIVE WrapMiddles(_, _, _, _, _)
\* Lines 1163-1175: blocks.slice(1, -1).forEach, from the i-th block on; each
\* middle block, as it was found at the start, is wrapped whole.
WrapMiddles(t, blocks, i, inline, opt) ==
  IF i > Len(blocks) - 1 \/ t.err THEN t
  ELSE Then({WrapMiddles(IF Norm(opt) THEN NormalizeNodeByKey(u2, blocks[i].key) ELSE u2,
                         blocks, i + 1, inline, opt) :
               u2 \in {Then({MoveEach(u1, blocks[i].nodes, 1, t.nk, 0) :
                               u1 \in {InsertNodeByKey(Generated(t), blocks[i].key, 0,
                                                       RegenerateKey(t, inline), FALSE)}})}})

\* Lines 1142-1161: after the two splits, the wrappers of the start block and
\* of the end block go in, at startIndex - 1 and at endIndex, and take the
\* nodes after the start child and up to the end child.
WrapEnds(t, inline, opt, startBlock, endBlock, startIndex, endIndex) ==
  Then({Then({IF Norm(opt)
              THEN NormalizeNodeByKey(NormalizeNodeByKey(u3, startBlock.key), endBlock.key)
              ELSE u3 :
                u3 \in {Then({MoveEach(u2, Slice(endBlock.nodes, 0, endIndex + 1),
                                       1, t.nk + 1, 0) :
                                u2 \in {MoveEach(u1, Skip(startBlock.nodes, startIndex + 1),
                                                 1, t.nk, 0)}})}}) :
          u1 \in {Then({InsertNodeByKey(u0, endBlock.key, endIndex,
                                        [inline EXCEPT !.key = t.nk + 1], FALSE) :
                          u0 \in {InsertNodeByKey(Generated(Generated(t)), startBlock.key,
                                                  startIndex - 1, RegenerateKey(t, inline),
                                                  FALSE)}})}})

\* Lines 1133-1176: start and end in different blocks.
WrapAcrossBlocks(t, inline, opt, blocks, startBlock, endBlock, startChild, endChild, startOff, endOff) ==
  Then({IF u.err THEN u
        ELSE WrapMiddles(WrapEnds(u, inline, opt, GetDescendant(u.doc, startBlock.key),
                                  GetDescendant(u.doc, endBlock.key),
                                  IndexOf(startBlock.nodes, startChild),
                                  IndexOf(endBlock.nodes, endChild)),
                         blocks, 2, inline, opt) :
    u \in {SplitNodeByKey(SplitNodeByKey(t, startChild.key, startOff, FALSE),
                          endChild.key, endOff, FALSE)}})

\* Lines 1076-1176: an expanded range.
WrapInlineInRange(t, range, inline, opt) ==
  Then({IF startBlock.kind = "null" \/ endBlock.kind = "null" THEN Throw(t)
        ELSE Then({IF startBlock = endBlock
                   THEN WrapInBlock(t, range, inline, opt, startChild, endChild,
                                    OffsetIn(startChild, StartKey(range), StartOffset(range)),
                                    OffsetIn(endChild, EndKey(range), EndOffset(range)))
                   ELSE WrapAcrossBlocks(t, inline, opt,
                                         GetBlocksAtRange(t.doc, range), startBlock, endBlock,
                                         startChild, endChild,
                                         OffsetIn(startChild, StartKey(range), StartOffset(range)),
                                         OffsetIn(endChild, EndKey(range), EndOffset(range))) :
                     startChild \in {GetHighestChild(startBlock, StartKey(range))},
                     endChild \in {GetHighestChild(endBlock, EndKey(range))}}) :
    startBlock \in {GetClosestBlock(t.doc, StartKey(range))},
    endBlock \in {GetClosestBlock(t.doc, EndKey(range))}})

\* Lines 1060-1177. A collapsed range wraps the void inline around it, and
\* reads isVoid of no node when no inline is around it.
WrapInlineAtRange(t, range, inline, opt) ==
  IF t.err THEN t
  ELSE IF IsCollapsed(range)
  THEN Then({IF inlineParent.kind = "null" THEN Throw(t)
             ELSE IF ~inlineParent.isVoid THEN t
             ELSE WrapInlineByKey(t, inlineParent.key, inline, opt) :
               inlineParent \in {GetClosestInline(t.doc, StartKey(range))}})
  ELSE WrapInlineInRange(t, range, [inline EXCEPT !.nodes = <<>>], opt)

(***************************************************************************)
(* Unwrapping inlines. The handler takes no options: its primitives run    *)
(* with their default, normalizing, and it moves the State's selection.    *)
(***************************************************************************)

\* getPreviousSibling(key): the child of node before its child with the key.
GetPreviousSibling(node, key) ==
  Then({IF i <= 1 THEN Null ELSE node.nodes[i - 1] :
          i \in {IndexOfKey(node.nodes, key) + 1}})

\* transform.unsetSelection(): the selection points at no node.
UnsetSelection(t) == [t EXCEPT !.sel = Range(Null.key, 0, Null.key, 0, FALSE)]

\* transform.moveTo with both ends at one point.
MoveTo(t, key, offset) == [t EXCEPT !.sel = Range(key, offset, key, offset, FALSE)]

\* transform.extendForward(n): the focus goes n further, in its leaf.
ExtendForward(t, n) ==
  [t EXCEPT !.sel = [@ EXCEPT !.focusOffset = @ + n, !.isBackward = n < 0]]

RECURSIVE MoveEachNormalizing(_, _, _, _, _)
\* forEach of lines 929-931, 937-941, 945-950 and 962-964: move the nodes
\* from the i-th on under newKey, the first of all to index base, with the
\* primitive's default normalization.
MoveEachNormalizing(t, nodes, i, newKey, base) ==
  IF i > Len(nodes) THEN t
  ELSE Then({MoveEachNormalizing(u, nodes, i + 1, newKey, base) :
               u \in {MoveNodeByKey(t, nodes[i].key, newKey, base + i - 1, TRUE)}})

\* Lines 953-967: the inline is split where its first matching child starts,
\* the matching children move out and the node before the first goes away.
UnwrapInlineMiddle(t, inline, parent, index, hits) ==
  Then({IF u.err THEN u
        ELSE Then({IF extra.kind = "null" THEN Throw(u)
                   ELSE RemoveNodeByKey(MoveEachNormalizing(u, PickFrom(inline.nodes, hits, 1),
                                                            1, parent.key, index + 1),
                                        extra.key, TRUE) :
                     extra \in {GetPreviousSibling(GetParent(u.doc, inline.nodes[Least(hits)].key),
                                                   inline.nodes[Least(hits)].key)}}) :
    u \in {SplitNodeByKey(t, inline.key,
                          GetOffset(inline, inline.nodes[Least(hits)].key), TRUE)}})

\* Lines 914-967 for one inline, as it was found in the document the
\* operation started with; hits are the places of its children that are text
\* leaves of the range.
UnwrapInlineOne(t, inline, parent, index, hits) ==
  IF hits = {} THEN Throw(t)
  ELSE IF 1 \in hits /\ Len(inline.nodes) \in hits
  THEN RemoveNodeByKey(MoveEachNormalizing(t, inline.nodes, 1, parent.key, index),
                       inline.key, TRUE)
  ELSE IF Len(inline.nodes) \in hits
  THEN MoveEachNormalizing(t, Skip(inline.nodes, Least(hits) - 1), 1, parent.key, index + 1)
  ELSE IF 1 \in hits
  THEN MoveEachNormalizing(t, Take(inline.nodes, Greatest(hits)), 1, parent.key, index)
  ELSE UnwrapInlineMiddle(t, inline, parent, index, hits)

RECURSIVE UnwrapInlineEach(_, _, _, _, _)
\* inlines.forEach of line 913, from the i-th inline on; doc is the document
\* the operation started with.
UnwrapInlineEach(t, doc, texts, inlines, i) ==
  IF i > Len(inlines) \/ t.err THEN t
  ELSE Then({UnwrapInlineEach(UnwrapInlineOne(UnsetSelection(t), inlines[i], parent,
                                              IndexOf(parent.nodes, inlines[i]),
                                              {k \in 1..Len(inlines[i].nodes) :
                                                 \E j \in 1..Len(texts) :
                                                   inlines[i].nodes[k] = texts[j]}),
                              doc, texts, inlines, i + 1) :
               parent \in {GetParent(doc, inlines[i].key)}})

\* Lines 889-979. selectionLength is read off the State's selection; the
\* node before the first matching inline is read with no test that there is
\* one.
UnwrapInlineAtRange(t, range, type) ==
  IF t.err THEN t
  ELSE Then({Then({IF inlines = <<>> THEN Throw(t)
                   ELSE Then({IF beginning.kind = "null" THEN Throw(t)
                              ELSE Then({IF u.err THEN u
                                         ELSE NormalizeDocument(
                                                ExtendForward(MoveTo(u, beginning.key,
                                                                     Length(beginning)),
                                                              EndOffset(t.sel) - StartOffset(t.sel))) :
                                           u \in {UnwrapInlineEach(t, t.doc, texts, inlines, 1)}}) :
                                beginning \in {GetPreviousSibling(GetParent(t.doc, inlines[1].key),
                                                                  inlines[1].key)}}) :
                     inlines \in {WrappersFrom(t.doc, texts, 1, "inline", type, <<>>)}}) :
          texts \in {GetTextsAtRange(t.doc, range)}})

(***************************************************************************)
(* Wrapping in text.                                                       *)
(***************************************************************************)

\* Selection.moveForward(n): both offsets go n further.
MoveForward(r, n) == [r EXCEPT !.anchorOffset = @ + n, !.focusOffset = @ + n]

\* Lines 1191-1203: the prefix goes in at the start and the suffix at the
\* end, which is prefix.length further on when both are in one leaf.
WrapTextAtRange(t, range, prefix, suffix, opt) ==
  Then({InsertTextAtRange(u, IF StartKey(range) = EndKey(range)
                             THEN MoveForward(CollapseToEnd(range), Len(prefix))
                             ELSE CollapseToEnd(range),
                          suffix, {}, IF Norm(opt) THEN "true" ELSE "false") :
          u \in {InsertTextAtRange(t, CollapseToStart(range), prefix, {},
                                   IF Norm(opt) THEN "true" ELSE "false")}})

(***************************************************************************)
(* The documents a Transform starts from, and the inputs of a call.        *)
(***************************************************************************)

Marks == {"bold", "italic"}

Plain(ids) == [i \in 1..Len(ids) |-> Char(ids[i], {})]

Bold(ids) == [i \in 1..Len(ids) |-> Char(ids[i], {"bold"})]

\* Three sibling paragraphs; the first character is bold.
FlatDoc ==
  Document(<<Block(1, "paragraph", FALSE, <<Text(11, Bold(<<1>>) \o Plain(<<2>>))>>),
             Block(2, "paragraph", FALSE, <<Text(12, Plain(<<3, 4>>))>>),
             Block(3, "paragraph", FALSE, <<Text(13, Plain(<<5, 6>>))>>)>>)

\* A paragraph, then a list whose only child is an item with two paragraphs.
NestedDoc ==
  Document(<<Block(1, "paragraph", FALSE, <<Text(11, Plain(<<1, 2>>))>>),
             Block(2, "list", FALSE,
               <<Block(3, "item", FALSE,
                   <<Block(4, "paragraph", FALSE, <<Text(12, Plain(<<3, 4>>))>>),
                     Block(5, "paragraph", FALSE, <<Text(13, Plain(<<5, 6>>))>>)>>)>>)>>)

\* Three sibling paragraphs two levels below the document.
DeepDoc ==
  Document(<<Block(1, "list", FALSE,
               <<Block(2, "item", FALSE,
                   <<Block(3, "paragraph", FALSE, <<Text(11, Plain(<<1, 2>>))>>),
                     Block(4, "paragraph", FALSE, <<Text(12, Plain(<<3, 4>>))>>),
                     Block(5, "paragraph", FALSE, <<Text(13, Plain(<<5, 6>>))>>)>>)>>)>>)

\* A void block between two paragraphs.
VoidBlockDoc ==
  Document(<<Block(1, "paragraph", FALSE, <<Text(11, Plain(<<1, 2>>))>>),
             Block(2, "image", TRUE, <<Text(12, Plain(<<3>>))>>),
             Block(3, "paragraph", FALSE, <<Text(13, Plain(<<4, 5>>))>>)>>)

\* Two void blocks at the start of the document.
VoidFirstDoc ==
  Document(<<Block(1, "image", TRUE, <<Text(11, Plain(<<1>>))>>),
             Block(2, "image", TRUE, <<Text(12, Plain(<<2>>))>>),
             Block(3, "paragraph", FALSE, <<Text(13, Plain(<<3, 4>>))>>)>>)

\* A void inline between two text leaves, and a void block at the end.
VoidInlineDoc ==
  Document(<<Block(1, "paragraph", FALSE,
               <<Text(11, Plain(<<1, 2>>)),
                 Inline(21, "emoji", TRUE, <<Text(12, Plain(<<3>>))>>),
                 Text(13, Plain(<<4>>))>>),
             Block(2, "image", TRUE, <<Text(14, Plain(<<5>>))>>)>>)

\* A link (its text bold) between two text leaves, then a paragraph.
InlineDoc ==
  Document(<<Block(1, "paragraph", FALSE,
               <<Text(11, Plain(<<1, 2>>)),
                 Inline(21, "link", FALSE, <<Text(12, Bold(<<3, 4>>))>>),
                 Text(13, Plain(<<5>>))>>),
             Block(2, "paragraph", FALSE, <<Text(14, Plain(<<6, 7>>))>>)>>)

\* An empty paragraph, then a paragraph.
EmptyDoc ==
  Document(<<Block(1, "paragraph", FALSE, <<Text(11, <<>>)>>),
             Block(2, "paragraph", FALSE, <<Text(12, Plain(<<1, 2>>))>>)>>)

\* Two quotes next to each other, two paragraphs in each, and a paragraph.
QuotesDoc ==
  Document(<<Block(1, "quote", FALSE,
               <<Block(3, "paragraph", FALSE, <<Text(11, Plain(<<1, 2>>))>>),
                 Block(4, "paragraph", FALSE, <<Text(12, Plain(<<3>>))>>)>>),
             Block(2, "quote", FALSE,
               <<Block(5, "paragraph", FALSE, <<Text(13, Plain(<<4>>))>>),
                 Block(6, "paragraph", FALSE, <<Text(14, Plain(<<5, 6>>))>>)>>),
             Block(7, "paragraph", FALSE, <<Text(15, Plain(<<7>>))>>)>>)

InitDocs ==
  {FlatDoc, NestedDoc, DeepDoc, VoidBlockDoc, VoidFirstDoc, VoidInlineDoc, InlineDoc, EmptyDoc}

\* The first key the generator has not handed out.
FreshKey(doc) == 1 + Greatest(Range1(KeysOf(doc)))

\* The points of a document: a text leaf and an offset in it.
Points(doc) ==
  Then({UNION {{<<i, o>> : o \in 0..Len(ts[i].chars)} : i \in 1..Len(ts)} :
          ts \in {GetTexts(doc)}})

PointBefore(p, q) == p[1] < q[1] \/ (p[1] = q[1] /\ p[2] < q[2])

\* Every range over the document, forward (anchor first) or backward.
RangesOf(doc) ==
  Then({{Range(ts[a[1]].key, a[2], ts[f[1]].key, f[2], PointBefore(f, a)) :
           a \in ps, f \in ps} :
          ts \in {GetTexts(doc)}, ps \in {Points(doc)}})

CollapsedRangesOf(doc) == {r \in RangesOf(doc) : IsCollapsed(r)}

Options == {"unset", "false"}

TextOptions == {"unset", "true", "false"}

\* The largest count n handed to a directional deletion.
MaxN == 2

\* The largest height handed to a split.
MaxHeight == 2

\* The largest number of calls made one after the other on one State.
MaxCalls == 2

\* Block.create and Inline.create: a node with one text leaf, its keys and
\* its leaf's taken from the generator.
NewBlock(k) == Block(k, "quote", FALSE, <<Text(k + 1, Plain(<<9>>))>>)

NewInline(k) == Inline(k, "link", FALSE, <<Text(k + 1, Plain(<<9>>))>>)

\* The characters of an inserted string.
NewText == <<8, 9>>

\* A fragment of one paragraph, or of two, its keys taken from the generator.
NewFragment(k, several) ==
  Document(<<Block(k, "paragraph", FALSE, <<Text(k + 1, Plain(<<8>>))>>)>>
             \o (IF several
                 THEN <<Block(k + 2, "paragraph", FALSE, <<Text(k + 3, Plain(<<9>>))>>)>>
                 ELSE <<>>))

\* The Transform of a call that was handed a fragment made for it.
TransformAfterFragment == NewTransform(document, selection, nextKey + 4)

Call(name, range, n, opt, mark, node) ==
  [name |-> name, range |-> range, n |-> n, opt |-> opt, mark |-> mark, node |-> node]

NoCall == Call("none", Range(-1, 0, -1, 0, FALSE), 0, "unset", "none", Null)

StartOf(doc) ==
  Then({Range(first.key, 0, first.key, 0, FALSE) : first \in {GetFirstText(doc)}})

InitWith(docs) ==
  /\ document \in docs
  /\ selection = StartOf(document)
  /\ nextKey = FreshKey(document)
  /\ prevDocument = document
  /\ prevSelection = selection
  /\ call = NoCall
  /\ ops = <<>>
  /\ err = FALSE
  /\ calls = 0

Init == InitWith(InitDocs)

\* The Transform a call starts with.
Transform == NewTransform(document, selection, nextKey)

\* The Transform of a call that was handed a node made for it.
TransformAfterCreate == NewTransform(document, selection, nextKey + 2)

\* The State after a call, with the record of the call.
Done(t, c) ==
  /\ document' = t.doc
  /\ selection' = t.sel
  /\ nextKey' = t.nk
  /\ prevDocument' = document
  /\ prevSelection' = selection
  /\ call' = c
  /\ ops' = t.ops
  /\ err' = t.err
  /\ calls' = calls + 1

\* No call has been made on the State yet.
Fresh == calls = 0

addMarkAtRange ==
  /\ Fresh
  /\ \E r \in RangesOf(document), m \in Marks, o \in Options :
       \E t \in {AddMarkAtRange(Transform, r, m, o)} :
         Done(t, Call("addMarkAtRange", r, 0, o, m, Null))

removeMarkAtRange ==
  /\ Fresh
  /\ \E r \in RangesOf(document), m \in Marks, o \in Options :
       \E t \in {RemoveMarkAtRange(Transform, r, m, o)} :
         Done(t, Call("removeMarkAtRange", r, 0, o, m, Null))

toggleMarkAtRange ==
  /\ Fresh
  /\ \E r \in RangesOf(document), m \in Marks, o \in Options :
       \E t \in {ToggleMarkAtRange(Transform, r, m, o)} :
         Done(t, Call("toggleMarkAtRange", r, 0, o, m, Null))

deleteAtRange ==
  /\ Fresh
  /\ \E r \in RangesOf(document), o \in Options :
       \E t \in {DeleteAtRange(Transform, r, o)} :
         Done(t, Call("deleteAtRange", r, 0, o, "none", Null))

deleteBackwardAtRange ==
  /\ Fresh
  /\ \E r \in RangesOf(document), n \in 1..MaxN, o \in Options :
       \E t \in {DeleteBackwardAtRange(Transform, r, n, o)} :
         Done(t, Call("deleteBackwardAtRange", r, n, o, "none", Null))

deleteForwardAtRange ==
  /\ Fresh
  /\ \E r \in RangesOf(document), n \in 1..MaxN, o \in Options :
       \E t \in {DeleteForwardAtRange(Transform, r, n, o)} :
         Done(t, Call("deleteForwardAtRange", r, n, o, "none", Null))

insertBlockAtRange ==
  /\ Fresh
  /\ \E r \in RangesOf(document), o \in Options :
       \E t \in {InsertBlockAtRange(TransformAfterCreate, r, NewBlock(nextKey), o)} :
         Done(t, Call("insertBlockAtRange", r, 0, o, "none", NewBlock(nextKey)))

insertInlineAtRange ==
  /\ Fresh
  /\ \E r \in RangesOf(document), o \in Options :
       \E t \in {InsertInlineAtRange(TransformAfterCreate, r, NewInline(nextKey), o)} :
         Done(t, Call("insertInlineAtRange", r, 0, o, "none", NewInline(nextKey)))

insertTextAtRange ==
  /\ Fresh
  /\ \E r \in RangesOf(document), o \in TextOptions :
       \E t \in {InsertTextAtRange(Transform, r, NewText, {"italic"}, o)} :
         Done(t, Call("insertTextAtRange", r, 0, o, "italic", Null))

splitBlockAtRange ==
  /\ Fresh
  /\ \E r \in RangesOf(document), h \in 1..MaxHeight, o \in Options :
       \E t \in {SplitBlockAtRange(Transform, r, h, o)} :
         Done(t, Call("splitBlockAtRange", r, h, o, "none", Null))

splitInlineAtRange ==
  /\ Fresh
  /\ \E r \in RangesOf(document), h \in 1..MaxHeight, o \in Options :
       \E t \in {SplitInlineAtRange(Transform, r, h, o)} :
         Done(t, Call("splitInlineAtRange", r, h, o, "none", Null))

setBlockAtRange ==
  /\ Fresh
  /\ \E r \in RangesOf(document), o \in Options :
       \E t \in {SetBlockAtRange(Transform, r, "heading", o)} :
         Done(t, Call("setBlockAtRange", r, 0, o, "heading", Null))

setInlineAtRange ==
  /\ Fresh
  /\ \E r \in RangesOf(document), o \in Options :
       \E t \in {SetInlineAtRange(Transform, r, "hashtag", o)} :
         Done(t, Call("setInlineAtRange", r, 0, o, "hashtag", Null))

\* One call on each State the Transform can start from.
Next ==
  \/ addMarkAtRange
  \/ removeMarkAtRange
  \/ toggleMarkAtRange
  \/ deleteAtRange
  \/ deleteBackwardAtRange
  \/ deleteForwardAtRange
  \/ insertBlockAtRange
  \/ insertInlineAtRange
  \/ insertTextAtRange
  \/ splitBlockAtRange
  \/ splitInlineAtRange
  \/ setBlockAtRange
  \/ setInlineAtRange

Spec == Init /\ [][Next]_vars

(***************************************************************************)
(* Calls one after the other on the same State: a caret or a selection     *)
(* somewhere in the document, and for an insertion a node made for the     *)
(* call or the node the call before was handed.                            *)
(***************************************************************************)

\* A further call can be made.
Ready == calls < MaxCalls /\ ~err

\* The nodes of a kind a call can be handed.
NodesAtHand(kind, new) == IF call.node.kind = kind THEN {new, call.node} ELSE {new}

\* The Transform of a call handed the node: making the node took two keys.
TransformWith(node) ==
  NewTransform(document, selection, IF node.key = nextKey THEN nextKey + 2 ELSE nextKey)

\* The ranges from a point to a later one.
ForwardRangesOf(doc) == {r \in RangesOf(doc) : IsExpanded(r) /\ ~r.isBackward}

insertBlockAtCaret ==
  /\ Ready
  /\ \E r \in CollapsedRangesOf(document), node \in NodesAtHand("block", NewBlock(nextKey)) :
       \E t \in {InsertBlockAtRange(TransformWith(node), r, node, "unset")} :
         Done(t, Call("insertBlockAtRange", r, 0, "unset", "none", node))

insertInlineAtCaret ==
  /\ Ready
  /\ \E r \in CollapsedRangesOf(document), node \in NodesAtHand("inline", NewInline(nextKey)) :
       \E t \in {InsertInlineAtRange(TransformWith(node), r, node, "unset")} :
         Done(t, Call("insertInlineAtRange", r, 0, "unset", "none", node))

splitBlockAtCaret ==
  /\ Ready
  /\ \E r \in CollapsedRangesOf(document) :
       \E t \in {SplitBlockAtRange(Transform, r, 1, "unset")} :
         Done(t, Call("splitBlockAtRange", r, 1, "unset", "none", call.node))

deleteSelection ==
  /\ Ready
  /\ \E r \in ForwardRangesOf(document) :
       \E t \in {DeleteAtRange(Transform, r, "unset")} :
         Done(t, Call("deleteAtRange", r, 0, "unset", "none", call.node))

\* A paragraph beside a list: blocks with different parents.
SequenceDocs == {NestedDoc}

InitSequence == InitWith(SequenceDocs)

NextSequence ==
  \/ insertBlockAtCaret
  \/ insertInlineAtCaret
  \/ splitBlockAtCaret
  \/ deleteSelection

SpecSequence == InitSequence /\ [][NextSequence]_vars

(***************************************************************************)
(* The character, word and line deletions, on a State whose selection is   *)
(* a caret anywhere in the document and with a range of the caller's.      *)
(***************************************************************************)

VariantDocs == {FlatDoc, InlineDoc}

InitVariants ==
  /\ document \in VariantDocs
  /\ selection \in CollapsedRangesOf(document)
  /\ nextKey = FreshKey(document)
  /\ prevDocument = document
  /\ prevSelection = selection
  /\ call = NoCall
  /\ ops = <<>>
  /\ err = FALSE
  /\ calls = 0

deleteCharBackwardAtRange ==
  /\ Fresh
  /\ \E r \in RangesOf(document), o \in Options :
       \E t \in {DeleteCharBackwardAtRange(Transform, r, o)} :
         Done(t, Call("deleteCharBackwardAtRange", r, 0, o, "none", Null))

deleteLineBackwardAtRange ==
  /\ Fresh
  /\ \E r \in RangesOf(document), o \in Options :
       \E t \in {DeleteLineBackwardAtRange(Transform, r, o)} :
         Done(t, Call("deleteLineBackwardAtRange", r, 0, o, "none", Null))

deleteWordBackwardAtRange ==
  /\ Fresh
  /\ \E r \in RangesOf(document), o \in Options :
       \E t \in {DeleteWordBackwardAtRange(Transform, r, o)} :
         Done(t, Call("deleteWordBackwardAtRange", r, 0, o, "none", Null))

deleteCharForwardAtRange ==
  /\ Fresh
  /\ \E r \in RangesOf(document), o \in Options :
       \E t \in {DeleteCharForwardAtRange(Transform, r, o)} :
         Done(t, Call("deleteCharForwardAtRange", r, 0, o, "none", Null))

deleteLineForwardAtRange ==
  /\ Fresh
  /\ \E r \in RangesOf(document), o \in Options :
       \E t \in {DeleteLineForwardAtRange(Transform, r, o)} :
         Done(t, Call("deleteLineForwardAtRange", r, 0, o, "none", Null))

deleteWordForwardAtRange ==
  /\ Fresh
  /\ \E r \in RangesOf(document), o \in Options :
       \E t \in {DeleteWordForwardAtRange(Transform, r, o)} :
         Done(t, Call("deleteWordForwardAtRange", r, 0, o, "none", Null))

NextVariants ==
  \/ deleteCharBackwardAtRange
  \/ deleteLineBackwardAtRange
  \/ deleteWordBackwardAtRange
  \/ deleteCharForwardAtRange
  \/ deleteLineForwardAtRange
  \/ deleteWordForwardAtRange

SpecVariants == InitVariants /\ [][NextVariants]_vars

(***************************************************************************)
(* Wrapping, unwrapping and fragment insertion: one call on each State.    *)
(***************************************************************************)

WrapDocs == {FlatDoc, NestedDoc, DeepDoc, VoidBlockDoc, QuotesDoc, InlineDoc}

InitWrap == InitWith(WrapDocs)

wrapBlockAtRange ==
  /\ Fresh
  /\ \E r \in RangesOf(document), o \in Options :
       \E t \in {WrapBlockAtRange(TransformAfterCreate, r, NewBlock(nextKey), o)} :
         Done(t, Call("wrapBlockAtRange", r, 0, o, "none", NewBlock(nextKey)))

unwrapBlockAtRange ==
  /\ Fresh
  /\ \E r \in RangesOf(document), o \in Options :
       \E t \in {UnwrapBlockAtRange(Transform, r, "quote", o)} :
         Done(t, Call("unwrapBlockAtRange", r, 0, o, "quote", Null))

insertFragmentAtRange ==
  /\ Fresh
  /\ \E r \in RangesOf(document), several \in BOOLEAN, o \in Options :
       \E t \in {InsertFragmentAtRange(TransformAfterFragment, r,
                                       NewFragment(nextKey, several), o)} :
         Done(t, Call("insertFragmentAtRange", r, 0, o, "none",
                      NewFragment(nextKey, several)))

wrapInlineAtRange ==
  /\ Fresh
  /\ \E r \in RangesOf(document), o \in Options :
       \E t \in {WrapInlineAtRange(TransformAfterCreate, r, NewInline(nextKey), o)} :
         Done(t, Call("wrapInlineAtRange", r, 0, o, "none", NewInline(nextKey)))

wrapTextAtRange ==
  /\ Fresh
  /\ \E r \in RangesOf(document), o \in Options :
       \E t \in {WrapTextAtRange(Transform, r, <<8>>, <<9>>, o)} :
         Done(t, Call("wrapTextAtRange", r, 0, o, "none", Null))

NextWrap ==
  \/ wrapBlockAtRange
  \/ unwrapBlockAtRange
  \/ insertFragmentAtRange
  \/ wrapInlineAtRange
  \/ wrapTextAtRange

SpecWrap == InitWrap /\ [][NextWrap]_vars

(***************************************************************************)
(* unwrapInlineAtRange on a State whose selection is a caret or a forward  *)
(* range of a document with an inline.                                     *)
(***************************************************************************)

InlineDocs == {InlineDoc, VoidInlineDoc}

InlineTypes == {"link", "emoji"}

InitSelection ==
  /\ document \in InlineDocs
  /\ selection \in {r \in RangesOf(document) : ~r.isBackward}
  /\ nextKey = FreshKey(document)
  /\ prevDocument = document
  /\ prevSelection = selection
  /\ call = NoCall
  /\ ops = <<>>
  /\ err = FALSE
  /\ calls = 0

unwrapInlineAtRange ==
  /\ Fresh
  /\ \E r \in RangesOf(document), type \in InlineTypes :
       \E t \in {UnwrapInlineAtRange(Transform, r, type)} :
         Done(t, Call("unwrapInlineAtRange", r, 0, "unset", type, Null))

NextSelection ==
  \/ unwrapInlineAtRange

SpecSelection == InitSelection /\ [][NextSelection]_vars

(***************************************************************************)
(* Properties.                                                             *)
(***************************************************************************)

\* The call returned, issued no primitive and left the State as it was.
NoOp ==
  /\ ~err
  /\ ops = <<>>
  /\ document = prevDocument
  /\ selection = prevSelection

\* C1: after any sequence of at-range calls on a document with distinct keys,
\* two of them handed the same block or inline included, the keys of the
\* document's nodes are distinct.
KeysDistinct ==
  \A i, j \in 1..Len(KeysOf(document)) :
    /\ KeysOf(document)[i] # document.key
    /\ i # j => KeysOf(document)[i] # KeysOf(document)[j]

\* C2: addMarkAtRange, removeMarkAtRange, toggleMarkAtRange and deleteAtRange
\* with a collapsed range issue no primitive and leave the State as it was.
CollapsedRangeIsNoOp ==
  (/\ call.name \in {"addMarkAtRange", "removeMarkAtRange", "toggleMarkAtRange",
                     "deleteAtRange"}
   /\ IsCollapsed(call.range))
    => NoOp

\* A mark or delete call with a collapsed range has returned.
CollapsedRangeCalled ==
  /\ call.name \in {"addMarkAtRange", "deleteAtRange"}
  /\ IsCollapsed(call.range)
  /\ calls = 1

\* C3: insertTextAtRange and insertInlineAtRange, when the parent of the
\* range's start leaf is void, issue no primitive and leave the document as
\* it was, whether the range is collapsed or expanded.
VoidParentIsNoOp ==
  (/\ call.name \in {"insertTextAtRange", "insertInlineAtRange"}
   /\ GetParent(prevDocument, StartKey(call.range)).isVoid)
    => (ops = <<>> /\ document = prevDocument)

\* C4: in a call with normalization on, every primitive but the last is
\* issued with normalization off, so the repair pass runs at most once, as the
\* last step.
NormalizesOnceAtEnd ==
  (call.name # "none" /\ call.opt # "false")
    => \A i \in 1..(Len(ops) - 1) : ~ops[i].normalize

\* C5: in a call with normalize:false no primitive runs with normalization
\* on and no normalizeNodeByKey or normalizeDocument is issued.
NormalizeFalseSuppresses ==
  call.opt = "false" => \A i \in 1..Len(ops) : ~ops[i].normalize

\* The blocks of a deleteAtRange from a leaf that is the only child of block
\* one to a leaf that is the only child of block two, the next sibling of one
\* (Null, Null when the call is not of this shape).
MergedPair ==
  LET one == GetParent(prevDocument, StartKey(call.range))
      two == GetParent(prevDocument, EndKey(call.range))
      parent == GetParent(prevDocument, one.key)
  IN IF /\ call.name = "deleteAtRange"
        /\ one.kind = "block" /\ two.kind = "block"
        /\ Len(one.nodes) = 1 /\ Len(two.nodes) = 1
        /\ GetParent(prevDocument, two.key).key = parent.key
        /\ IndexOfKey(parent.nodes, two.key) = IndexOfKey(parent.nodes, one.key) + 1
     THEN <<one, two>> ELSE <<Null, Null>>

\* C6: deleteAtRange from offset i in the leaf of block A to offset j in the
\* leaf of its next sibling B leaves, in A's place, one block with A's text
\* before i and B's text from j on; B is gone and the parent's other children
\* are as they were, in their order.
AdjacentBlocksMerge ==
  LET one == MergedPair[1]
      two == MergedPair[2]
      parent == GetParent(prevDocument, one.key)
      at == IndexOfKey(parent.nodes, one.key) + 1
      after == IF parent.key = document.key THEN document
               ELSE GetDescendant(document, parent.key)
  IN one.kind = "block" =>
       /\ ~err
       /\ after.kind = parent.kind
       /\ Len(after.nodes) = Len(parent.nodes) - 1
       /\ \A k \in 1..Len(after.nodes) :
            /\ k < at => after.nodes[k] = parent.nodes[k]
            /\ k > at => after.nodes[k] = parent.nodes[k + 1]
            /\ k = at => /\ after.nodes[k].kind = "block"
                         /\ CharsOf(after.nodes[k])
                              = Take(CharsOf(one), StartOffset(call.range))
                                  \o Skip(CharsOf(two), EndOffset(call.range))
       /\ ~HasNode(document, two.key)

\* C7: deleteAtRange with a range from one leaf to another leaves the text
\* before the range's start followed by the text after its end.
DeleteKeepsOutside ==
  LET before == CharsOf(prevDocument)
      from == GetOffset(prevDocument, StartKey(call.range)) + StartOffset(call.range)
      to == GetOffset(prevDocument, EndKey(call.range)) + EndOffset(call.range)
  IN (/\ call.name = "deleteAtRange"
      /\ IsExpanded(call.range)
      /\ StartKey(call.range) # EndKey(call.range))
       => CharsOf(document) = Take(before, from) \o Skip(before, to)

\* The void block, or else the void inline, the leaf with the key lies in.
VoidAround(doc, key) ==
  IF GetClosestBlock(doc, key).isVoid THEN GetClosestBlock(doc, key)
  ELSE IF GetClosestInline(doc, key).isVoid THEN GetClosestInline(doc, key)
  ELSE Null

\* The void node next to the caret of a directional deletion: the one around
\* the previous leaf for a caret at the start of its leaf, around the next
\* leaf for a caret at the end of its leaf.
VoidNeighbour ==
  LET leaf == GetDescendant(prevDocument, StartKey(call.range))
  IN IF /\ call.name = "deleteBackwardAtRange"
        /\ IsCollapsed(call.range)
        /\ StartOffset(call.range) = 0
     THEN VoidAround(prevDocument, GetPreviousText(prevDocument, leaf.key).key)
     ELSE IF /\ call.name = "deleteForwardAtRange"
             /\ IsCollapsed(call.range)
             /\ StartOffset(call.range) = Len(leaf.chars)
     THEN VoidAround(prevDocument, GetNextText(prevDocument, leaf.key).key)
     ELSE Null

\* The call was one removeNodeByKey of the node, and the document is the one
\* before without it.
RemovedOnly(node) ==
  /\ ~err
  /\ Len(ops) = 1
  /\ ops[1].op = "removeNodeByKey"
  /\ ops[1].key = node.key
  /\ document = RemoveAt(prevDocument, GetPath(prevDocument, node.key))

\* The caret's own leaf lies in no void block or inline.
CaretOutsideVoid == VoidAround(prevDocument, StartKey(call.range)).kind = "null"

\* C8, as stated: a directional deletion with the caret at the edge of its
\* leaf, the neighbouring leaf in a void node, removes that void node and
\* nothing else.
VoidNeighbourRemoved == VoidNeighbour.kind # "null" => RemovedOnly(VoidNeighbour)

\* C8: a directional deletion with the caret at the edge of its leaf, the
\* caret's leaf in no void node and the neighbouring leaf in a void node,
\* removes that void node with one removeNodeByKey and nothing else.
VoidNeighbourRemovedOutsideVoid ==
  (VoidNeighbour.kind # "null" /\ CaretOutsideVoid) => RemovedOnly(VoidNeighbour)

\* A caret outside any void node had a void inline before it removed.
VoidNeighbourCase ==
  /\ call.name = "deleteBackwardAtRange"
  /\ VoidNeighbour.kind = "inline"
  /\ CaretOutsideVoid
  /\ RemovedOnly(VoidNeighbour)

\* The caret of a directional deletion is at the document's boundary on the
\* side the deletion goes to.
AtBoundary ==
  \/ call.name = "deleteBackwardAtRange" /\ IsAtStartOf(call.range, prevDocument)
  \/ call.name = "deleteForwardAtRange" /\ IsAtEndOf(call.range, prevDocument)

\* C9, as stated: deleteBackwardAtRange at the start of the document and
\* deleteForwardAtRange at its end are no-ops for every n.
BoundaryIsNoOp == AtBoundary => NoOp

\* C9: deleteBackwardAtRange at the start of the document and
\* deleteForwardAtRange at its end, the caret's leaf in no void node, are
\* no-ops for every n.
BoundaryIsNoOpOutsideVoid == (AtBoundary /\ CaretOutsideVoid) => NoOp

\* A forward deletion was called at the end of a document that ends outside
\* any void node.
BoundaryCase ==
  /\ call.name = "deleteForwardAtRange"
  /\ call.n = MaxN
  /\ AtBoundary
  /\ CaretOutsideVoid

\* The ids of the characters inside the range.
InsideIds(doc, range) ==
  LET ts == GetTextsAtRange(doc, range)
  IN UNION {{ts[i].chars[j].c : j \in {k \in 1..Len(ts[i].chars) :
                                        IsInRange(k - 1, ts[i], range)}} :
              i \in 1..Len(ts)}

\* A character inside the range carries the mark.
MarkInside(doc, range, mark) ==
  \E ch \in Range1(CharsOf(doc)) : ch.c \in InsideIds(doc, range) /\ mark \in ch.marks

\* A leaf the range spans carries the mark, inside the range or outside it.
MarkOnLeaf(doc, range, mark) ==
  LET ts == GetTextsAtRange(doc, range)
  IN \E i \in 1..Len(ts) : \E j \in 1..Len(ts[i].chars) : mark \in ts[i].chars[j].marks

\* The call left the characters in their places, the characters inside the
\* range without the mark when it was present and with it when it was not,
\* and the characters outside the range with the marks they had.
Toggled(present) ==
  LET now == CharsOf(document)
      before == CharsOf(prevDocument)
  IN /\ ~err
     /\ Len(now) = Len(before)
     /\ \A i \in 1..Len(now) :
          /\ now[i].c = before[i].c
          /\ IF now[i].c \in InsideIds(prevDocument, call.range)
             THEN (call.mark \in now[i].marks) = ~present
             ELSE now[i].marks = before[i].marks

PlainInsertSkipsNormalization ==
  (/\ call.name = "insertTextAtRange"
   /\ call.opt = "unset"
   /\ IsCollapsed(call.range))
    => \A i \in 1..Len(ops) : ~ops[i].normalize

\* The block B around the caret of an insertBlockAtRange with a collapsed
\* range, B's parent P before the call, B's place in P and P after the call
\* (Null when the call is another one or P is gone).
PlaceOf ==
  LET b == GetClosestBlock(prevDocument, StartKey(call.range))
      p == GetParent(prevDocument, b.key)
  IN IF call.name = "insertBlockAtRange" /\ IsCollapsed(call.range) /\ b.kind = "block"
     THEN [block |-> b, parent |-> p, at |-> IndexOfKey(p.nodes, b.key) + 1,
           after |-> IF p.key = document.key THEN document
                     ELSE GetDescendant(document, p.key)]
     ELSE [block |-> Null, parent |-> Null, at |-> 0, after |-> Null]

\* The case of lines 402-423 the caret falls in.
PlaceCase ==
  LET b == PlaceOf.block
  IN IF b.isVoid THEN "void"
     ELSE IF IsEmpty(b) THEN "empty"
     ELSE IF IsAtStartOf(call.range, b) THEN "start"
     ELSE IF IsAtEndOf(call.range, b) THEN "end"
     ELSE "split"

\* P's children are B's halves at the caret with the new block between them,
\* among the children P had.
SplitAround ==
  LET b == PlaceOf.block
      was == PlaceOf.parent.nodes
      now == PlaceOf.after.nodes
      at == PlaceOf.at
      off == GetOffset(b, StartKey(call.range)) + StartOffset(call.range)
  IN /\ Len(now) = Len(was) + 2
     /\ \A k \in 1..Len(now) :
          /\ k < at => now[k] = was[k]
          /\ k > at + 2 => now[k] = was[k - 2]
     /\ now[at].kind = "block" /\ now[at].key = b.key /\ now[at].type = b.type
     /\ CharsOf(now[at]) = Take(CharsOf(b), off)
     /\ now[at + 1] = call.node
     /\ now[at + 2].kind = "block" /\ now[at + 2].type = b.type
     /\ CharsOf(now[at + 2]) = Skip(CharsOf(b), off)

\* C16: insertBlockAtRange with a caret in block B, child i of P, puts the new
\* block after B when B is void or the caret is at B's end, in B's place when
\* B is empty, before B when the caret is at B's start, and otherwise between
\* the two halves of B split at the caret; P's other children stay as they
\* were, in their order.
BlockPlacedByCase ==
  LET was == PlaceOf.parent.nodes
      now == PlaceOf.after.nodes
      at == PlaceOf.at
  IN PlaceOf.block.kind = "block" =>
       /\ ~err
       /\ PlaceOf.after.kind = PlaceOf.parent.kind
       /\ PlaceCase \in {"void", "end"} =>
            now = Take(was, at) \o <<call.node>> \o Skip(was, at)
       /\ PlaceCase = "empty" =>
            now = Take(was, at - 1) \o <<call.node>> \o Skip(was, at)
       /\ PlaceCase = "start" =>
            now = Take(was, at - 1) \o <<call.node>> \o Skip(was, at - 1)
       /\ PlaceCase = "split" => SplitAround

\* A block was inserted at a caret strictly inside a block with text on both
\* sides of the caret.
BlockPlacedInside ==
  /\ PlaceOf.block.kind = "block"
  /\ PlaceCase = "split"
  /\ SplitAround
  /\ Len(CharsOf(PlaceOf.after.nodes[PlaceOf.at])) > 0

\* C19: in a directional deletion with a collapsed range, every removeTextByKey
\* addresses characters of its leaf: 0 <= index and index + length is at most
\* the length of the leaf.
DeletionStaysInLeaf ==
  (/\ call.name \in {"deleteBackwardAtRange", "deleteForwardAtRange"}
   /\ IsCollapsed(call.range))
    => \A i \in 1..Len(ops) :
         ops[i].op = "removeTextByKey" =>
           /\ ops[i].a >= 0
           /\ ops[i].a + ops[i].b
                <= Len(GetDescendant(prevDocument, ops[i].key).chars)

\* The document the call named leaves when made with the call's range and
\* option on the document before and a State selection s.
DocumentWith(s) ==
  LET t == NewTransform(prevDocument, s, FreshKey(prevDocument))
      r == call.range
      o == call.opt
  IN (CASE call.name = "deleteCharBackwardAtRange" -> DeleteCharBackwardAtRange(t, r, o)
        [] call.name = "deleteLineBackwardAtRange" -> DeleteLineBackwardAtRange(t, r, o)
        [] call.name = "deleteWordBackwardAtRange" -> DeleteWordBackwardAtRange(t, r, o)
        [] call.name = "deleteCharForwardAtRange" -> DeleteCharForwardAtRange(t, r, o)
        [] call.name = "deleteLineForwardAtRange" -> DeleteLineForwardAtRange(t, r, o)
        [] call.name = "deleteWordForwardAtRange" -> DeleteWordForwardAtRange(t, r, o)
        [] OTHER -> t).doc

\* C18: the document a character, word or line deletion leaves is the one
\* the same call with the same range leaves on the same document under any
\* other selection of the State.
SelectionIndependent ==
  call.name # "none" =>
    \A s \in CollapsedRangesOf(prevDocument) : DocumentWith(s) = document

\* A block of the type is in the document.
HasType(doc, type) ==
  \E i \in 1..Len(PathsOf(doc)) :
    NodeAt(doc, PathsOf(doc)[i]).kind = "block" /\ NodeAt(doc, PathsOf(doc)[i]).type = type

\* The State unwrapBlockAtRange leaves when called, with the range and the
\* option of the call and the new block's type, on the State the call left.
Unwrapped ==
  UnwrapBlockAtRange(NewTransform(document, selection, nextKey), call.range,
                     call.node.type, call.opt)

\* C11: after wrapBlockAtRange with a block of a type the document did not
\* hold, unwrapBlockAtRange with that type on the same range gives back the
\* document the wrap started from: the same blocks under the same parents in
\* the same order.
WrapUnwrapRoundTrip ==
  (call.name = "wrapBlockAtRange" /\ ~HasType(prevDocument, call.node.type))
    => /\ ~err
       /\ ~Unwrapped.err
       /\ Unwrapped.doc = prevDocument

\* Two sibling blocks or more were wrapped, and unwrapping gives the document
\* from before the wrap.
WrapUnwrapCase ==
  /\ call.name = "wrapBlockAtRange"
  /\ ~HasType(prevDocument, call.node.type)
  /\ Len(GetBlocksAtRange(prevDocument, call.range)) >= 2
  /\ HasType(document, call.node.type)
  /\ Unwrapped.doc = prevDocument

\* The keys of the blocks that hold the text leaves, in document order.
LeafBlockKeys(doc) ==
  LET blocks == ClosestEach(doc, GetTexts(doc), 1, "block")
  IN [i \in 1..Len(blocks) |-> blocks[i].key]

\* The wrappers an unwrapBlockAtRange call found.
WrappersOfCall ==
  IF call.name = "unwrapBlockAtRange"
  THEN WrappersFrom(prevDocument, GetBlocksAtRange(prevDocument, call.range), 1,
                    "block", call.mark, <<>>)
  ELSE <<>>

\* The wrapper's first and last child each are, or hold, a block of the range.
FullyCovered(w) ==
  LET blocks == GetBlocksAtRange(prevDocument, call.range)
      in(child) == \E j \in 1..Len(blocks) :
                     child = blocks[j] \/ HasDescendant(child, blocks[j].key)
  IN in(w.nodes[1]) /\ in(w.nodes[Len(w.nodes)])

\* C14: unwrapBlockAtRange over blocks of two or more matching wrappers that
\* are children of one parent removes every wrapper that is fully covered and
\* leaves the blocks that hold the text in the document order they had.
UnwrapKeepsOrder ==
  LET ws == WrappersOfCall
  IN (/\ Len(ws) >= 2
      /\ \A i \in 1..Len(ws) :
           GetParent(prevDocument, ws[i].key).key = GetParent(prevDocument, ws[1].key).key)
       => /\ ~err
          /\ \A i \in 1..Len(ws) : FullyCovered(ws[i]) => ~HasNode(document, ws[i].key)
          /\ LeafBlockKeys(document) = LeafBlockKeys(prevDocument)

\* The block the caret of an insertFragmentAtRange call with a collapsed range
\* was in (Null for another call).
TargetBlock ==
  IF call.name = "insertFragmentAtRange" /\ IsCollapsed(call.range)
  THEN GetClosestBlock(prevDocument, StartKey(call.range))
  ELSE Null

\* C13: insertFragmentAtRange at a caret p in a non-empty block leaves the
\* text before p, then the fragment's text, then the text after p; and with
\* a fragment of several blocks, a block that ends with all of the target
\* block's text after p, right after the text of the fragment's last block.
FragmentInReadingOrder ==
  LET before == CharsOf(prevDocument)
      at == GetOffset(prevDocument, StartKey(call.range)) + StartOffset(call.range)
      rest == Skip(CharsOf(TargetBlock),
                   GetOffset(TargetBlock, StartKey(call.range)) + StartOffset(call.range))
      blocks == GetBlocks(call.node)
      tail == CharsOf(blocks[Len(blocks)]) \o rest
  IN (TargetBlock.kind = "block" /\ ~IsEmpty(TargetBlock))
       => /\ ~err
          /\ CharsOf(document) = Take(before, at) \o CharsOf(call.node) \o Skip(before, at)
          /\ Len(blocks) > 1 =>
               \E i \in 1..Len(GetBlocks(document)) :
                 CharsOf(GetBlocks(document)[i]) = tail

\* The nodes the handler put in with insertNodeByKey that the document holds.
InsertedNodes ==
  {GetDescendant(document, ops[i].b) :
     i \in {j \in 1..Len(ops) : ops[j].op = "insertNodeByKey" /\ HasNode(document, ops[j].b)}}

\* C15: wrapInlineAtRange on an expanded range whose start and end are in
\* different blocks leaves the text in the order it had, and the wrappers it
\* put in hold exactly the characters inside the range: the start block's
\* the ones after the start point, the end block's the ones before the end
\* point, a middle block's all of them.
InlineWrapKeepsOrder ==
  (/\ call.name = "wrapInlineAtRange"
   /\ IsExpanded(call.range)
   /\ GetClosestBlock(prevDocument, StartKey(call.range))
        # GetClosestBlock(prevDocument, EndKey(call.range)))
    => /\ ~err
       /\ CharsOf(document) = CharsOf(prevDocument)
       /\ UNION {{ch.c : ch \in Range1(CharsOf(w))} : w \in InsertedNodes}
            = InsideIds(prevDocument, call.range)

\* The number of characters between the start and the end of a range.
LengthOfRange(doc, range) ==
  (GetOffset(doc, EndKey(range)) + EndOffset(range))
    - (GetOffset(doc, StartKey(range)) + StartOffset(range))

\* The matching inlines an unwrapInlineAtRange call found around the text
\* leaves of its range (none for another call).
InlinesOfCall ==
  IF call.name = "unwrapInlineAtRange"
  THEN WrappersFrom(prevDocument, GetTextsAtRange(prevDocument, call.range), 1,
                    "inline", call.mark, <<>>)
  ELSE <<>>

\* C17: after unwrapInlineAtRange on the State's selection, when the range
\* spans text inside a matching inline that a text leaf precedes, the
\* selection is anchored at the end of that leaf and is as long as the range
\* was, in one leaf or over several.
SelectionRestored ==
  LET inlines == InlinesOfCall
      beginning == GetPreviousSibling(GetParent(prevDocument, inlines[1].key), inlines[1].key)
  IN (inlines # <<>> /\ prevSelection = call.range /\ beginning.kind = "text")
       => /\ ~err
          /\ selection.anchorKey = beginning.key
          /\ selection.anchorOffset = Len(beginning.chars)
          /\ selection.focusKey = beginning.key
          /\ selection.focusOffset - selection.anchorOffset
               = LengthOfRange(prevDocument, call.range)
====
